---- MODULE Spec2Model ----
(***************************************************************************)
(* Model of the schema-aware incremental MERGE compiler of streamlake:     *)
(*   src/initial-loader-athena/backfill_athena.py  (entry point "backfill")*)
(*   src/micro-batch/micro_batch_data.py           (entry point "micro")   *)
(* and of the hourly data-quality comparison, src/micro-batch/dql.py.      *)
(* Python strings are sequences of one-character strings, so that lower(), *)
(* strip() and the sanitizer are computed, not assumed.  A composed        *)
(* statement is kept as a record of its clauses (ON keys, USING filter,    *)
(* SET targets, INSERT columns, guard) instead of its rendered text.       *)
(***************************************************************************)
EXTENDS Integers, Sequences, FiniteSets, TLC

----------------------------------------------------------------------------
(* State *)

\* One merge run of either entry point
VARIABLES
  entry,      \* "backfill" (build_and_run_merge) or "micro" (main, merge step)
  inp,        \* the run's arguments and the schemas the catalog will return
  pc,         \* position of the run
  res,        \* what build_merge_sql returned or raised
  warns,      \* [WARN] lines printed by the run
  submitted,  \* statements handed to start_query_execution
  err,        \* the error that ended the run, "none" while it runs
  engine,     \* Status of the query execution as last polled
  err_reason, \* the reason text inside the error raised by run_athena_sql
  cleanup     \* what drop_staging_table did to the staging table and its objects

\* Column alignment of the extracted frame
VARIABLES
  pg_names,      \* column names the PostgreSQL cursor reports (None: unnamed)
  pg_ddl,      \* fetch_pg_ddl_columns
  athena_cols,     \* fetch_athena_table_columns (<<>>: not fetched)
  frame_cols,       \* the frame's column labels
  align_branch,  \* branch taken by align_df_columns_with_pg
  align_warns,   \* [WARN] lines printed by the alignment
  apc            \* "start", "fetched", "aligned"

\* The staging and production tables under repeated MERGE statements
VARIABLES
  mcfg,     \* merge options: updated_col, exclude, dedupe
  merge_sql,\* the MERGE statement main composed from them
  staging,  \* rows of the staging table (text columns)
  prod,     \* rows of the production table (typed columns)
  applied,  \* MERGE statements run against the staging table
  last      \* outcome of the last MERGE

\* One pure function of the compiler applied to one text
VARIABLES
  expr_in,   \* the function applied and its arguments
  expr_out,  \* its value
  epc        \* "start", "done"

\* One run of the hourly data-quality comparison (dql.py main)
VARIABLES
  dq_specs,   \* the parsed --check arguments, in order
  dq_days,    \* days of the window [start_dt, end_dt)
  dq_pc,      \* position of main
  dq_i,       \* index of the check run_all is at
  pg_conn,    \* PostgresClient._conn: "none", "open", "closed"
  had_error,  \* DQHourlyRunner.had_error
  frames,     \* run_all's list of per-check frames
  dq_log,     \* per finished check, the line printed: "ERROR" or "TIME"
  attempt,    \* read_sql: attempts made by the current call
  sleeps,     \* read_sql: backoff_sleep calls of the current call
  read_out,   \* how the last read_sql call ended
  df_rows,    \* the frame run_all returned, as its rows
  batch_size, \* write_results' batch_size
  offset,     \* write_results: the loop variable i
  batches,    \* the chunks handed to start_query_execution, in order
  dq_engine,  \* Status of the batch's query execution as last polled
  exit_code   \* exit status of the process, NoExit while it runs

runVars == <<entry, inp, pc, res, warns, submitted, err, engine, err_reason, cleanup>>

alignVars == <<pg_names, pg_ddl, athena_cols, frame_cols, align_branch, align_warns, apc>>

mergeVars == <<mcfg, merge_sql, staging, prod, applied, last>>

exprVars == <<expr_in, expr_out, epc>>

dqVars ==
  <<dq_specs, dq_days, dq_pc, dq_i, pg_conn, had_error, frames, dq_log, attempt,
    sleeps, read_out, df_rows, batch_size, offset, batches, dq_engine, exit_code>>

vars == <<runVars, alignVars, mergeVars, exprVars, dqVars>>

----------------------------------------------------------------------------
(* Characters and strings *)

UpperChars == <<"A","B","C","D","E","F","G","H","I","J","K","L","M",
                "N","O","P","Q","R","S","T","U","V","W","X","Y","Z">>

LowerChars == <<"a","b","c","d","e","f","g","h","i","j","k","l","m",
                "n","o","p","q","r","s","t","u","v","w","x","y","z">>

DigitChars == <<"0","1","2","3","4","5","6","7","8","9">>

InSeq(x, s) == \E i \in 1..Len(s) : s[i] = x

\* Python's None for an Optional[str]; no string of the model holds this element.
None == <<"<None>">>

\* Python truthiness of an Optional[str]: None and "" are falsy.
Truthy(s) == s /= None /\ Len(s) > 0

UpperSet == {UpperChars[i] : i \in 1..Len(UpperChars)}

LowerOf ==
  [c \in UpperSet |-> LowerChars[CHOOSE i \in 1..Len(UpperChars) : UpperChars[i] = c]]

LowerChar(c) == IF c \in UpperSet THEN LowerOf[c] ELSE c

\* str.lower()
Lower(s) == [i \in 1..Len(s) |-> LowerChar(s[i])]

RECURSIVE LStrip(_)
LStrip(s) == IF Len(s) > 0 /\ Head(s) = " " THEN LStrip(Tail(s)) ELSE s

RECURSIVE RStrip(_)
RStrip(s) ==
  IF Len(s) > 0 /\ s[Len(s)] = " " THEN RStrip(SubSeq(s, 1, Len(s) - 1)) ELSE s

\* str.strip()
Strip(s) == RStrip(LStrip(s))

\* str.replace(ch, ch + ch): the quote doubling of qident and of the literals
RECURSIVE DoubleChar(_, _)
DoubleChar(s, ch) ==
  IF Len(s) = 0 THEN <<>>
  ELSE (IF Head(s) = ch THEN <<ch, ch>> ELSE <<Head(s)>>) \o DoubleChar(Tail(s), ch)

Min(S) == CHOOSE x \in S : \A y \in S : x <= y

----------------------------------------------------------------------------
(* Column names used by the model *)

cId    == <<"i","d">>
cID    == <<"I","D">>
cName  == <<"n","a","m","e">>
cUpd   == <<"u","p","d","a","t","e","d","_","a","t">>
cCre   == <<"c","r","e","a","t","e","d","_","a","t">>
cExtra == <<"e","x","t","r","a">>
cZz    == <<"z","z">>
cOp    == <<"_","_","o","p">>
cOP    == <<"_","_","O","P">>
cTs    == <<"_","_","t","s","_","m","s">>

----------------------------------------------------------------------------
(* sanitize_for_athena *)

IsSafeChar(c) == InSeq(c, LowerChars) \/ InSeq(c, DigitChars) \/ c = "_"

\* re.sub(r"[^a-z0-9_]", "_", n)
ReplaceUnsafe(s) == [i \in 1..Len(s) |-> IF IsSafeChar(s[i]) THEN s[i] ELSE "_"]

\* re.sub(r"_+", "_", n)
RECURSIVE CollapseUnderscores(_)
CollapseUnderscores(s) ==
  IF Len(s) = 0 THEN <<>>
  ELSE IF Len(s) > 1 /\ s[1] = "_" /\ s[2] = "_" THEN CollapseUnderscores(Tail(s))
  ELSE <<Head(s)>> \o CollapseUnderscores(Tail(s))

RECURSIVE LStripUnderscore(_)
LStripUnderscore(s) ==
  IF Len(s) > 0 /\ Head(s) = "_" THEN LStripUnderscore(Tail(s)) ELSE s

RECURSIVE RStripUnderscore(_)
RStripUnderscore(s) ==
  IF Len(s) > 0 /\ s[Len(s)] = "_"
  THEN RStripUnderscore(SubSeq(s, 1, Len(s) - 1)) ELSE s

sanitize_for_athena(name) ==
  LET n1 == ReplaceUnsafe(Lower(Strip(IF name = None THEN <<>> ELSE name)))
      n2 == IF Len(n1) > 0 /\ InSeq(n1[1], DigitChars) THEN <<"_">> \o n1 ELSE n1
      n3 == RStripUnderscore(LStripUnderscore(CollapseUnderscores(n2)))
  IN IF Len(n3) = 0 THEN <<"c","o","l">> ELSE n3

----------------------------------------------------------------------------
(* build_merge_sql: the parts both entry points share *)

\* merged_cols: the reconciled column list
MergedCols(all_cols, dest_cols_lower) ==
  LET kept   == SelectSeq(all_cols, LAMBDA c : Lower(c) \in dest_cols_lower)
      withOp == IF cOp \in dest_cols_lower /\ ~InSeq(cOp, kept)
                THEN Append(kept, cOp) ELSE kept
  IN IF cTs \in dest_cols_lower /\ ~InSeq(cTs, withOp)
     THEN Append(withOp, cTs) ELSE withOp

\* Positions of the primary keys the ON loop rejects
BadPkPositions(pk_cols, dest_cols_lower) ==
  {i \in 1..Len(pk_cols) : Lower(pk_cols[i]) \notin dest_cols_lower}

\* Faulty variant of OnRaises: an absent primary key is let through
OnNeverRaises(pk_cols, dest_cols_lower) == FALSE

\* The ON loop raises at the first primary key absent from the destination
OnRaises(pk_cols, dest_cols_lower) == BadPkPositions(pk_cols, dest_cols_lower) /= {}

\* on_parts: the keys whose predicate was appended (all of them, or those before
\* the raise)
OnParts(pk_cols, dest_cols_lower) ==
  IF OnRaises(pk_cols, dest_cols_lower)
  THEN SubSeq(pk_cols, 1, Min(BadPkPositions(pk_cols, dest_cols_lower)) - 1)
  ELSE pk_cols

\* updatable_cols: merged columns that are neither keys nor excluded
UpdatableCols(merged_cols, pk_cols, exclude_update_cols, dest_cols_lower) ==
  SelectSeq(merged_cols,
            LAMBDA c : /\ Lower(c) \in dest_cols_lower
                       /\ ~InSeq(c, pk_cols)
                       /\ c \notin exclude_update_cols)

\* set_pairs targets before the fallback: updatable columns, then the accepted
\* extra assignments
SetTargets(updatable_cols, extra_set, dest_cols_lower) ==
  updatable_cols \o SelectSeq(extra_set, LAMBDA c : Lower(c) \in dest_cols_lower)

\* "if not set_pairs: ... pk_cols[0]" raises IndexError on an empty key list
SetRaises(set_targets, pk_cols) == Len(set_targets) = 0 /\ Len(pk_cols) = 0

SetFallback(set_targets) == Len(set_targets) = 0

\* WHEN MATCHED guard: present when the recency column is a destination column
MatchedGuard(updated_at_col, dest_cols_lower) ==
  Truthy(updated_at_col) /\ Lower(updated_at_col) \in dest_cols_lower

----------------------------------------------------------------------------
(* Compiled clauses *)

\* A compiled source expression: _cast_expr_for_col(col, target_type) reads
\* s.<col> and casts it to the destination type (None: passthrough)
CastExpr(col, dest_types) ==
  [col |-> col,
   type |-> IF Lower(col) \in DOMAIN dest_types THEN dest_types[Lower(col)] ELSE "passthrough"]

\* Faulty variant of SetPairs: no self-assignment is substituted
SetPairsNoFallback(set_targets, pk_cols, dest_types) ==
  [i \in 1..Len(set_targets) |->
     [target |-> set_targets[i], rhs |-> CastExpr(set_targets[i], dest_types)]]

\* set_pairs, the fallback self-assignment on the first key included
SetPairs(set_targets, pk_cols, dest_types) ==
  IF Len(set_targets) = 0
  THEN (IF Len(pk_cols) = 0 THEN <<>>
        ELSE <<[target |-> pk_cols[1], rhs |-> [col |-> pk_cols[1], type |-> "self"]]>>)
  ELSE [i \in 1..Len(set_targets) |->
          [target |-> set_targets[i], rhs |-> CastExpr(set_targets[i], dest_types)]]

SrcColsLower(all_cols) == {Lower(all_cols[i]) : i \in 1..Len(all_cols)}

NoUsing == [kind |-> "unbuilt", col |-> None, start |-> None, end |-> None,
            part_by |-> <<>>, order_parts |-> <<>>, proj_cols |-> <<>>]

\* What build_merge_sql leaves behind when it raises: no statement
NoStmt == [on |-> <<>>, using |-> NoUsing, guard |-> FALSE, guard_col |-> None,
           set |-> <<>>, fallback |-> FALSE, insert_cols |-> <<>>, merged |-> <<>>]

----------------------------------------------------------------------------
(* backfill_athena.build_merge_sql *)

\* _ts_literal: escape, strip, and raise ValueError on an empty result
TsLiteral(ts_str) == Strip(DoubleChar(IF ts_str = None THEN <<>> ELSE ts_str, "'"))

TsLiteralRaises(ts_str) == Len(TsLiteral(ts_str)) = 0

EffFilterCol(filter_col, updated_at_col) ==
  IF Truthy(filter_col) THEN filter_col ELSE updated_at_col

HasEffCol(eff_filter_col, all_cols) ==
  Truthy(eff_filter_col) /\ Lower(eff_filter_col) \in SrcColsLower(all_cols)

BoundGiven(filter_start_ts, filter_end_ts) ==
  Truthy(filter_start_ts) \/ Truthy(filter_end_ts)

\* Faulty variant of UsingBranch: a bound whose column is absent falls through to the
\* default lookback instead of dropping the filter with a warning
UsingBranchFallsThrough(all_cols, updated_at_col, filter_col, filter_start_ts, filter_end_ts) ==
  IF BoundGiven(filter_start_ts, filter_end_ts)
       /\ HasEffCol(EffFilterCol(filter_col, updated_at_col), all_cols)
  THEN "range"
  ELSE IF Truthy(updated_at_col) /\ Lower(updated_at_col) \in SrcColsLower(all_cols)
  THEN "lookback"
  ELSE "none"

\* The branch of the USING subquery: "range", "dropped" (bound given, column
\* absent: warning, no WHERE), "lookback" or "none"
UsingBranch(all_cols, updated_at_col, filter_col, filter_start_ts, filter_end_ts) ==
  LET eff == EffFilterCol(filter_col, updated_at_col)
  IN IF BoundGiven(filter_start_ts, filter_end_ts) /\ HasEffCol(eff, all_cols)
     THEN "range"
     ELSE IF BoundGiven(filter_start_ts, filter_end_ts) /\ ~HasEffCol(eff, all_cols)
     THEN "dropped"
     ELSE IF Truthy(updated_at_col) /\ Lower(updated_at_col) \in SrcColsLower(all_cols)
     THEN "lookback"
     ELSE "none"

\* _mk_range_where raises when a given bound strips to nothing
RangeRaises(filter_start_ts, filter_end_ts) ==
  \/ Truthy(filter_start_ts) /\ TsLiteralRaises(filter_start_ts)
  \/ Truthy(filter_end_ts) /\ TsLiteralRaises(filter_end_ts)

UsingRaises(all_cols, updated_at_col, filter_col, filter_start_ts, filter_end_ts) ==
  /\ UsingBranch(all_cols, updated_at_col, filter_col, filter_start_ts, filter_end_ts) = "range"
  /\ RangeRaises(filter_start_ts, filter_end_ts)

\* The [WARN] lines one build prints
UsingWarnings(all_cols, updated_at_col, filter_col, filter_start_ts, filter_end_ts) ==
  IF UsingBranch(all_cols, updated_at_col, filter_col, filter_start_ts, filter_end_ts) = "dropped"
  THEN 1 ELSE 0

\* using_subquery: its WHERE clause.  start/end hold the rendered literal of a
\* bound that contributes a condition, None otherwise.
UsingBackfill(all_cols, updated_at_col, filter_col, filter_start_ts, filter_end_ts) ==
  LET b == UsingBranch(all_cols, updated_at_col, filter_col, filter_start_ts, filter_end_ts)
  IN CASE b = "range" ->
            [NoUsing EXCEPT !.kind = "range",
                            !.col = EffFilterCol(filter_col, updated_at_col),
                            !.start = IF Truthy(filter_start_ts)
                                      THEN TsLiteral(filter_start_ts) ELSE None,
                            !.end = IF Truthy(filter_end_ts)
                                    THEN TsLiteral(filter_end_ts) ELSE None]
       [] b = "lookback" -> [NoUsing EXCEPT !.kind = "lookback", !.col = updated_at_col]
       [] OTHER -> [NoUsing EXCEPT !.kind = "none"]

BackfillBuildMergeSql(pk_cols, all_cols, dest_types, updated_at_col, exclude_update_cols, extra_set, filter_col, filter_start_ts, filter_end_ts) ==
  LET dest_cols_lower == DOMAIN dest_types
      merged_cols == MergedCols(all_cols, dest_cols_lower)
      updatable   == UpdatableCols(merged_cols, pk_cols, exclude_update_cols, dest_cols_lower)
      targets     == SetTargets(updatable, extra_set, dest_cols_lower)
      raised ==
        IF OnRaises(pk_cols, dest_cols_lower) THEN "RuntimeError"
        ELSE IF UsingRaises(all_cols, updated_at_col, filter_col, filter_start_ts, filter_end_ts)
        THEN "ValueError"
        ELSE IF SetRaises(targets, pk_cols) THEN "IndexError"
        ELSE "none"
  IN [raised |-> raised,
      on_built |-> OnParts(pk_cols, dest_cols_lower),
      warns |-> IF raised = "RuntimeError" THEN 0
                ELSE UsingWarnings(all_cols, updated_at_col, filter_col,
                                   filter_start_ts, filter_end_ts),
      stmt |-> IF raised /= "none" THEN NoStmt
               ELSE [on |-> pk_cols,
                     using |-> UsingBackfill(all_cols, updated_at_col, filter_col,
                                             filter_start_ts, filter_end_ts),
                     guard |-> MatchedGuard(updated_at_col, dest_cols_lower),
                     guard_col |-> IF MatchedGuard(updated_at_col, dest_cols_lower)
                                   THEN updated_at_col ELSE None,
                     set |-> SetPairs(targets, pk_cols, dest_types),
                     fallback |-> SetFallback(targets),
                     insert_cols |-> merged_cols,
                     merged |-> merged_cols]]

----------------------------------------------------------------------------
(* micro_batch_data.build_merge_sql *)

HasCol(col, all_cols) == Truthy(col) /\ Lower(col) \in SrcColsLower(all_cols)

\* Faulty variant of OrderParts: the primary keys come before the tie-breakers
OrderPartsKeysFirst(pk_cols, all_cols, updated_at_col, dedupe_tiebreakers) ==
  LET has_updated == HasCol(updated_at_col, all_cols)
      has_created == cCre \in SrcColsLower(all_cols)
      first == IF has_updated /\ has_created THEN << <<updated_at_col, cCre>> >>
               ELSE IF has_updated THEN << <<updated_at_col>> >>
               ELSE IF has_created THEN << <<cCre>> >>
               ELSE <<>>
  IN first \o [i \in 1..Len(pk_cols) |-> <<pk_cols[i]>>]
           \o [i \in 1..Len(dedupe_tiebreakers) |-> <<dedupe_tiebreakers[i]>>]

\* order_parts: each part is the list of columns it coalesces, all DESC
OrderParts(pk_cols, all_cols, updated_at_col, dedupe_tiebreakers) ==
  LET has_updated == HasCol(updated_at_col, all_cols)
      has_created == cCre \in SrcColsLower(all_cols)
      first == IF has_updated /\ has_created THEN << <<updated_at_col, cCre>> >>
               ELSE IF has_updated THEN << <<updated_at_col>> >>
               ELSE IF has_created THEN << <<cCre>> >>
               ELSE <<>>
  IN first \o [i \in 1..Len(dedupe_tiebreakers) |-> <<dedupe_tiebreakers[i]>>]
           \o [i \in 1..Len(pk_cols) |-> <<pk_cols[i]>>]

UsingMicro(pk_cols, all_cols, insert_cols, updated_at_col, dedupe_source, dedupe_tiebreakers) ==
  IF dedupe_source
  THEN [NoUsing EXCEPT
          !.kind = "dedup",
          !.part_by = pk_cols,
          !.order_parts = OrderParts(pk_cols, all_cols, updated_at_col, dedupe_tiebreakers),
          !.proj_cols = SelectSeq(insert_cols, LAMBDA c : Lower(c) \notin {cOp, cTs})]
  ELSE [NoUsing EXCEPT !.kind = "none"]

MicroBuildMergeSql(pk_cols, all_cols, prod_types, updated_at_col, exclude_update_cols, extra_set, dedupe_source, dedupe_tiebreakers) ==
  LET dest_cols_lower == DOMAIN prod_types
      merged_cols == MergedCols(all_cols, dest_cols_lower)
      updatable   == UpdatableCols(merged_cols, pk_cols, exclude_update_cols, dest_cols_lower)
      targets     == SetTargets(updatable, extra_set, dest_cols_lower)
      raised ==
        IF OnRaises(pk_cols, dest_cols_lower) THEN "RuntimeError"
        ELSE IF SetRaises(targets, pk_cols) THEN "IndexError"
        ELSE "none"
  IN [raised |-> raised,
      on_built |-> OnParts(pk_cols, dest_cols_lower),
      warns |-> 0,
      stmt |-> IF raised /= "none" THEN NoStmt
               ELSE [on |-> pk_cols,
                     using |-> UsingMicro(pk_cols, all_cols, merged_cols, updated_at_col,
                                          dedupe_source, dedupe_tiebreakers),
                     guard |-> MatchedGuard(updated_at_col, dest_cols_lower),
                     guard_col |-> IF MatchedGuard(updated_at_col, dest_cols_lower)
                                   THEN updated_at_col ELSE None,
                     set |-> SetPairs(targets, pk_cols, prod_types),
                     fallback |-> SetFallback(targets),
                     insert_cols |-> merged_cols,
                     merged |-> merged_cols]]

----------------------------------------------------------------------------
(* One merge run of either entry point *)

\* Destination column types of the modelled production table
FullTypes ==
  (cId :> "bigint") @@ (cName :> "varchar") @@ (cUpd :> "timestamp")
    @@ (cOp :> "varchar") @@ (cTs :> "timestamp")

Restrict(f, S) == [x \in S |-> f[x]]

DestChoices ==
  { Restrict(FullTypes, {}), Restrict(FullTypes, {cId}),
    Restrict(FullTypes, {cId, cName, cUpd}),
    Restrict(FullTypes, {cId, cName, cUpd, cOp, cTs}) }

SrcChoices ==
  { <<>>, <<cId>>, <<cId, cName, cUpd>>, <<cId, cOp>>, <<cId, cOP>>,
    <<cExtra, cId, cUpd>>, <<cId, cCre>>, <<cId, cUpd, cCre>> }

\* --pk as given: the list of its pieces
PkRawChoices ==
  { <<>>, <<cId>>, <<cID>>, <<cId, cZz>>, <<cZz, cId>>, << <<" ">> >> }

ExcludeChoices == { {}, {cId}, {cUpd} }

StartChoices == { None, <<" ">>, <<"1">>, <<"2">> }

EndChoices == { None, <<>>, <<"1">>, <<"2">> }

\* --dedupe-tiebreakers as given: the list of its pieces
TiebreakerChoices == { <<>>, <<cName>>, <<cExtra, cName>>, << <<" ">>, cName >> }

BackfillInputs ==
  [pk_raw : PkRawChoices, src_cols : SrcChoices, dest_types : DestChoices,
   updated_col : {None, cUpd}, exclude : ExcludeChoices,
   filter_col : {None, cUpd, cZz}, start_ts : StartChoices, end_ts : EndChoices,
   dedupe : {FALSE}]

MicroInputs ==
  [pk_raw : PkRawChoices, src_cols : SrcChoices, dest_types : DestChoices,
   updated_col : {None, cUpd}, exclude : ExcludeChoices,
   filter_col : {None}, start_ts : {None}, end_ts : {None},
   dedupe : BOOLEAN, tiebreakers : TiebreakerChoices]

NoRes == [raised |-> "unbuilt", on_built |-> <<>>, warns |-> 0, stmt |-> NoStmt]

\* _dedupe_preserve_order
RECURSIVE DedupePreserveOrder(_)
DedupePreserveOrder(xs) ==
  IF Len(xs) = 0 THEN <<>>
  ELSE LET front == DedupePreserveOrder(SubSeq(xs, 1, Len(xs) - 1))
       IN IF InSeq(xs[Len(xs)], front) THEN front ELSE Append(front, xs[Len(xs)])

StripAll(xs) == [i \in 1..Len(xs) |-> Strip(xs[i])]

NonEmpty(xs) == SelectSeq(xs, LAMBDA x : Len(x) > 0)

\* backfill: main's default ["id"], then strip, drop blanks, de-duplicate
BackfillPkCols(pk_raw) ==
  DedupePreserveOrder(NonEmpty(StripAll(IF Len(pk_raw) = 0 THEN <<cId>> ELSE pk_raw)))

\* micro: split pieces stripped, blanks dropped, each sanitized
MicroPkCols(pk_raw) ==
  LET kept == NonEmpty(StripAll(pk_raw))
  IN [i \in 1..Len(kept) |-> sanitize_for_athena(kept[i])]

\* backfill: candidate_cols = src_cols + ["__op", "__ts_ms"]
CandidateCols(src_cols) == src_cols \o <<cOp, cTs>>

NoEngine == [state |-> "none", reason |-> None]

NoCleanup == [dropped |-> FALSE, purged |-> FALSE]

\* States get_query_execution reports
EngineStates == {"QUEUED", "RUNNING", "SUCCEEDED", "FAILED", "CANCELLED"}

\* StateChangeReason of the Status: absent, or a text
ReasonChoices == {None, <<"r">>}

RunInit ==
  /\ entry \in {"backfill", "micro"}
  /\ inp \in (IF entry = "backfill" THEN BackfillInputs ELSE MicroInputs)
  /\ pc = "start"
  /\ res = NoRes
  /\ warns = 0
  /\ submitted = 0
  /\ err = "none"
  /\ engine = NoEngine
  /\ err_reason = None
  /\ cleanup = NoCleanup

\* build_and_run_merge: fetch_athena_table_types and its emptiness check
BackfillFetchDestTypes ==
  /\ entry = "backfill" /\ pc = "start"
  /\ IF DOMAIN inp.dest_types = {}
     THEN pc' = "fatal" /\ err' = "DestSchemaNotFound"
     ELSE pc' = "have_dest" /\ err' = err
  /\ UNCHANGED <<entry, inp, res, warns, submitted, engine, err_reason, cleanup, alignVars, mergeVars, exprVars, dqVars>>

\* build_and_run_merge: fetch_athena_table_columns and its emptiness check
BackfillFetchSrcCols ==
  /\ entry = "backfill" /\ pc = "have_dest"
  /\ IF Len(inp.src_cols) = 0
     THEN pc' = "fatal" /\ err' = "SrcSchemaNotFound"
     ELSE pc' = "build" /\ err' = err
  /\ UNCHANGED <<entry, inp, res, warns, submitted, engine, err_reason, cleanup, alignVars, mergeVars, exprVars, dqVars>>

BackfillBuildResult(i) ==
  BackfillBuildMergeSql(BackfillPkCols(i.pk_raw), CandidateCols(i.src_cols), i.dest_types,
                        i.updated_col, i.exclude, <<>>, i.filter_col, i.start_ts, i.end_ts)

\* build_and_run_merge: the build_merge_sql call
BackfillBuild ==
  /\ entry = "backfill" /\ pc = "build"
  /\ res' = BackfillBuildResult(inp)
  /\ warns' = warns + res'.warns
  /\ IF res'.raised = "none"
     THEN pc' = "built" /\ err' = err
     ELSE pc' = "fatal" /\ err' = res'.raised
  /\ UNCHANGED <<entry, inp, submitted, engine, err_reason, cleanup, alignVars, mergeVars, exprVars, dqVars>>

\* micro main: "--prod-table and --pk are required"
MicroCheckArgs ==
  /\ entry = "micro" /\ pc = "start"
  /\ IF Len(inp.pk_raw) = 0
     THEN pc' = "exit" /\ err' = "exit6"
     ELSE pc' = "fetch_types" /\ err' = err
  /\ UNCHANGED <<entry, inp, res, warns, submitted, engine, err_reason, cleanup, alignVars, mergeVars, exprVars, dqVars>>

\* micro main: fetch_athena_table_types (no emptiness check)
MicroFetchProdTypes ==
  /\ entry = "micro" /\ pc = "fetch_types"
  /\ pc' = "build"
  /\ UNCHANGED <<entry, inp, res, warns, submitted, err, engine, err_reason, cleanup, alignVars, mergeVars, exprVars, dqVars>>

\* micro: the tie-breaker pieces stripped, blanks dropped
MicroTiebreakers(raw) == NonEmpty(StripAll(raw))

MicroBuildResult(i) ==
  MicroBuildMergeSql(MicroPkCols(i.pk_raw), i.src_cols, i.dest_types, i.updated_col,
                     i.exclude, <<>>, i.dedupe, MicroTiebreakers(i.tiebreakers))

\* micro main: the build_merge_sql call (an exception ends the process)
MicroBuild ==
  /\ entry = "micro" /\ pc = "build"
  /\ res' = MicroBuildResult(inp)
  /\ warns' = warns + res'.warns
  /\ IF res'.raised = "none"
     THEN pc' = "built" /\ err' = err
     ELSE pc' = "fatal" /\ err' = res'.raised
  /\ UNCHANGED <<entry, inp, submitted, engine, err_reason, cleanup, alignVars, mergeVars, exprVars, dqVars>>

\* run_athena_sql: start_query_execution, called once before the polling loop
Submit ==
  /\ pc = "built"
  /\ submitted' = submitted + 1
  /\ engine' = [state |-> "QUEUED", reason |-> None]
  /\ pc' = "polling"
  /\ UNCHANGED <<entry, inp, res, warns, err, err_reason, cleanup, alignVars, mergeVars, exprVars, dqVars>>

\* Faulty variant of PollPc: CANCELLED is not taken as the end of the query
PollPcIgnoresCancelled(e, st) ==
  CASE st = "SUCCEEDED" -> IF e = "backfill" THEN "done" ELSE "merged"
    [] st = "FAILED"    -> IF e = "backfill" THEN "fatal" ELSE "exit"
    [] OTHER            -> "polling"

\* Faulty variant of PollPc: micro main goes on after a failed MERGE
PollPcFallsThrough(e, st) ==
  CASE st \in {"SUCCEEDED", "FAILED", "CANCELLED"} -> IF e = "backfill" THEN "done" ELSE "merged"
    [] OTHER -> "polling"

\* Position of the run after one poll: the loop sleeps and polls again until a
\* terminal state; SUCCEEDED returns (backfill is then finished, micro goes on
\* to the cleanup); otherwise RuntimeError, which ends backfill and which micro
\* main catches to return 8
PollPc(e, st) ==
  CASE st = "SUCCEEDED"             -> IF e = "backfill" THEN "done" ELSE "merged"
    [] st \in {"FAILED", "CANCELLED"} -> IF e = "backfill" THEN "fatal" ELSE "exit"
    [] OTHER                          -> "polling"

PollErr(e, st) ==
  IF st \in {"FAILED", "CANCELLED"}
  THEN (IF e = "backfill" THEN "AthenaQueryEnded" ELSE "exit8")
  ELSE "none"

\* Faulty variant of RaisedReason: the error does not carry the reason
RaisedReasonDropped(status) == None

\* reason = r["QueryExecution"]["Status"].get("StateChangeReason")
RaisedReason(status) == status.reason

\* run_athena_sql: one get_query_execution of the polling loop, and what
\* follows the loop when the state is terminal
Poll ==
  /\ pc = "polling"
  /\ \E st \in EngineStates, rs \in ReasonChoices :
       /\ engine' = [state |-> st, reason |-> rs]
       /\ pc' = PollPc(entry, st)
       /\ err' = PollErr(entry, st)
       /\ err_reason' = IF st \in {"FAILED", "CANCELLED"} THEN RaisedReason(engine') ELSE err_reason
  /\ UNCHANGED <<entry, inp, res, warns, submitted, cleanup, alignVars, mergeVars, exprVars, dqVars>>

\* drop_staging_table: the drop through the catalog (or read_sql_query), on its
\* failure the DROP TABLE through run_athena_sql, whose failure is only warned
\* about; then the purge when asked for and a path is given
DropStagingTable(catalog_ok, sql_ok, purge_objects, path_given, purge_ok) ==
  [dropped |-> catalog_ok \/ sql_ok, purged |-> purge_objects /\ path_given /\ purge_ok]

\* micro main after run_athena_sql returned: drop_staging_table when
\* --drop-staging-after-merge is set, then "Done." and return 0
MicroCleanup ==
  /\ entry = "micro" /\ pc = "merged"
  /\ \E drop_staging_after_merge, catalog_ok, sql_ok, purge_objects, path_given, purge_ok \in BOOLEAN :
       cleanup' = IF drop_staging_after_merge
                  THEN DropStagingTable(catalog_ok, sql_ok, purge_objects, path_given, purge_ok)
                  ELSE cleanup
  /\ pc' = "done"
  /\ UNCHANGED <<entry, inp, res, warns, submitted, err, engine, err_reason, alignVars, mergeVars, exprVars, dqVars>>

RunNext ==
  \/ BackfillFetchDestTypes
  \/ BackfillFetchSrcCols
  \/ BackfillBuild
  \/ MicroCheckArgs
  \/ MicroFetchProdTypes
  \/ MicroBuild
  \/ Submit
  \/ Poll
  \/ MicroCleanup

----------------------------------------------------------------------------
(* Row-level meaning of the backfill USING filter *)

\* SQL NULL of a timestamp or integer value
NullNum == -1

\* TIMESTAMP '1970-01-01 00:00:00'
Epoch == 0

\* date_add('day', -30, current_date)
LookbackDays == 30

DigitValue(c) == (CHOOSE i \in 1..Len(DigitChars) : DigitChars[i] = c) - 1

\* Value of a rendered TIMESTAMP literal: the model's timestamps are day numbers
\* written as one digit
TsValue(lit) ==
  IF Len(lit) = 1 /\ InSeq(lit[1], DigitChars) THEN DigitValue(lit[1]) ELSE NullNum

Coalesce(v, d) == IF v = NullNum THEN d ELSE v

\* Faulty variant of UsingKeeps: the end bound is inclusive
UsingKeepsEndInclusive(using, v, today) ==
  CASE using.kind = "range" ->
         /\ v /= NullNum
         /\ (using.start /= None => v >= TsValue(using.start))
         /\ (using.end /= None => v <= TsValue(using.end))
    [] using.kind = "lookback" -> Coalesce(v, Epoch) > today - LookbackDays
    [] OTHER -> TRUE

\* Whether the WHERE clause of using_subquery keeps a source row whose filter
\* column casts to v (NullNum: NULL or unparsable), on the day `today`
UsingKeeps(using, v, today) ==
  CASE using.kind = "range" ->
         /\ v /= NullNum
         /\ (using.start /= None => v >= TsValue(using.start))
         /\ (using.end /= None => v < TsValue(using.end))
    [] using.kind = "lookback" -> Coalesce(v, Epoch) > today - LookbackDays
    [] OTHER -> TRUE

----------------------------------------------------------------------------
(* Claims about build_merge_sql and the run (specification Spec) *)

PkColsOf(e, i) == IF e = "backfill" THEN BackfillPkCols(i.pk_raw) ELSE MicroPkCols(i.pk_raw)

AllColsOf(e, i) == IF e = "backfill" THEN CandidateCols(i.src_cols) ELSE i.src_cols

Built == res.raised /= "unbuilt"

Returned == res.raised = "none"

LowerSet(xs) == {Lower(xs[i]) : i \in 1..Len(xs)}

\* C1: build_merge_sql returns a statement and raises nothing whenever every
\* primary key is a destination column, and otherwise raises the configuration
\* error before the ON predicate of the absent key is built.
C1_BuildTotalOnValidKeys ==
  Built =>
    LET pk == PkColsOf(entry, inp)
        dest == DOMAIN inp.dest_types
    IN /\ (LowerSet(pk) \subseteq dest) => res.raised = "none"
       /\ ~(LowerSet(pk) \subseteq dest) =>
            /\ res.raised = "RuntimeError"
            /\ LowerSet(res.on_built) \subseteq dest

\* The claimed effective filter column and its presence in the source
ClaimEffCol(i) == IF Truthy(i.filter_col) THEN i.filter_col ELSE i.updated_col

ClaimBoundGiven(i) == Truthy(i.start_ts) \/ Truthy(i.end_ts)

ClaimColInSource(e, i, col) == Truthy(col) /\ Lower(col) \in LowerSet(AllColsOf(e, i))

\* C5: a window bound is given and the effective filter column is not a source
\* column: the USING subquery has no WHERE (no range, no lookback), no literal
\* is rendered, and the build prints exactly one warning.
C5_AbsentFilterColumnDropsFilter ==
  (entry = "backfill" /\ Built /\ res.raised /= "RuntimeError"
     /\ ClaimBoundGiven(inp) /\ ~ClaimColInSource(entry, inp, ClaimEffCol(inp)))
  => /\ res.raised /= "ValueError"
     /\ warns = 1
     /\ (Returned => res.stmt.using.kind = "none")

C5_Witness ==
  /\ entry = "backfill" /\ Returned
  /\ ClaimBoundGiven(inp) /\ ~ClaimColInSource(entry, inp, ClaimEffCol(inp))
  /\ ClaimColInSource(entry, inp, inp.updated_col)
  /\ warns = 1

RowTsValues == {NullNum, 1, 2, 3}

Todays == {31, 32, 33}

\* What the claim says the filter keeps
ClaimKeeps(e, i, v, today) ==
  IF ClaimBoundGiven(i) /\ ClaimColInSource(e, i, ClaimEffCol(i))
  THEN /\ v /= NullNum
       /\ (Truthy(i.start_ts) => TsValue(Strip(i.start_ts)) <= v)
       /\ (Truthy(i.end_ts) => v < TsValue(Strip(i.end_ts)))
  ELSE IF ~ClaimBoundGiven(i) /\ ClaimColInSource(e, i, i.updated_col)
  THEN v /= NullNum /\ v > today - LookbackDays
  ELSE TRUE

ClaimKind(e, i) ==
  IF ClaimBoundGiven(i) /\ ClaimColInSource(e, i, ClaimEffCol(i)) THEN "range"
  ELSE IF ~ClaimBoundGiven(i) /\ ClaimColInSource(e, i, i.updated_col) THEN "lookback"
  ELSE "none"

\* C6: the source filter of a returned statement is chosen in priority order:
\* window [start, end) when a bound is given and the filter column is in the
\* source, else the trailing 30-day lookback when no bound is given and the
\* recency column is in the source, else no filter; exactly one applies.
C6_FilterPriority ==
  (entry = "backfill" /\ Returned) =>
    /\ res.stmt.using.kind = ClaimKind(entry, inp)
    /\ \A v \in RowTsValues : \A today \in Todays :
         UsingKeeps(res.stmt.using, v, today) = ClaimKeeps(entry, inp, v, today)

C6_Witness ==
  /\ entry = "backfill" /\ Returned
  /\ res.stmt.using.kind = "range"
  /\ res.stmt.using.start /= None /\ res.stmt.using.end /= None
  /\ UsingKeeps(res.stmt.using, 1, 31) /\ ~UsingKeeps(res.stmt.using, 2, 31)

ClaimInconsistentWindow(i) ==
  /\ Truthy(i.start_ts) /\ Truthy(i.end_ts)
  /\ TsValue(Strip(i.start_ts)) /= NullNum /\ TsValue(Strip(i.end_ts)) /= NullNum
  /\ TsValue(Strip(i.end_ts)) <= TsValue(Strip(i.start_ts))

\* C7: a run whose window bounds are inconsistent (end <= start) is rejected
\* with a configuration error: no statement is composed and none is submitted.
C7_InconsistentWindowRejected ==
  (entry = "backfill" /\ ClaimInconsistentWindow(inp)) =>
    /\ submitted = 0
    /\ ~Returned

SetTargetsOf(stmt) == [k \in 1..Len(stmt.set) |-> stmt.set[k].target]

\* C8: the SET list of a returned statement assigns exactly the reconciled
\* columns that are neither a primary key nor excluded, names compared
\* case-insensitively, each with its compiled expression; the fallback
\* self-assignment appears only when no such column exists.
C8_SetListExcludesKeys ==
  Returned =>
    LET pk == PkColsOf(entry, inp)
        want == SelectSeq(res.stmt.merged,
                          LAMBDA c : /\ Lower(c) \notin LowerSet(pk)
                                     /\ Lower(c) \notin {Lower(x) : x \in inp.exclude})
    IN IF res.stmt.fallback
       THEN Len(want) = 0
       ELSE /\ SetTargetsOf(res.stmt) = want
            /\ \A k \in 1..Len(res.stmt.set) :
                 res.stmt.set[k].rhs = CastExpr(res.stmt.set[k].target, inp.dest_types)

Occurrences(xs, name) == Cardinality({k \in 1..Len(xs) : Lower(xs[k]) = name})

\* C9: the reconciled list is the source columns that are destination columns,
\* in source order, followed by __op and __ts_ms when the destination defines
\* them and they are not yet present; each provenance column occurs exactly
\* once when the destination defines it and never otherwise.
C9_ProvenanceExactlyOnce ==
  Returned =>
    LET dest == DOMAIN inp.dest_types
        kept == SelectSeq(inp.src_cols, LAMBDA c : Lower(c) \in dest)
    IN /\ SubSeq(res.stmt.merged, 1, Len(kept)) = kept
       /\ \A k \in Len(kept)+1..Len(res.stmt.merged) : res.stmt.merged[k] \in {cOp, cTs}
       /\ \A p \in {cOp, cTs} :
            Occurrences(res.stmt.merged, p) = (IF p \in dest THEN 1 ELSE 0)

\* C14: a merge run hands the MERGE to the engine at most once; when the
\* engine reports FAILED or CANCELLED the run has ended with a fatal error that
\* carries the engine's state-change reason; a run gets past run_athena_sql
\* only when the engine reported SUCCEEDED
C14_SubmitOnceAndOutcome ==
  /\ submitted <= 1
  /\ engine.state \in {"FAILED", "CANCELLED"} =>
       /\ pc \in {"fatal", "exit"}
       /\ err \in {"AthenaQueryEnded", "exit8"}
       /\ err_reason = engine.reason
  /\ pc \in {"merged", "done"} => (engine.state = "SUCCEEDED" /\ submitted = 1)

C14_Witness ==
  /\ engine = [state |-> "CANCELLED", reason |-> <<"r">>]
  /\ err_reason = <<"r">>
  /\ submitted = 1
  /\ pc = "fatal"

ClaimEmptySchema ==
  \/ DOMAIN inp.dest_types = {}
  \/ (entry = "backfill" /\ Len(inp.src_cols) = 0)

ClaimBuildRaised == res.raised \notin {"none", "unbuilt"}

\* C15: when the destination schema (in backfill also the source schema) has
\* no column, or build_merge_sql raised, no MERGE is handed to the engine and
\* the run, once ended, has ended with an error
C15_NoMergeWithoutSchema ==
  (ClaimEmptySchema \/ ClaimBuildRaised) =>
    /\ submitted = 0
    /\ engine = NoEngine
    /\ pc \in {"start", "have_dest", "fetch_types", "build", "fatal", "exit"}
    /\ pc \in {"fatal", "exit"} => err /= "none"

C15_Witness ==
  /\ entry = "micro"
  /\ DOMAIN inp.dest_types = {}
  /\ ClaimBuildRaised
  /\ pc = "fatal"
  /\ submitted = 0

\* C16: in micro main the staging table is dropped, and its objects purged,
\* only after the MERGE of the same run reached SUCCEEDED; a run whose merge
\* was not run, failed, or was never composed does neither
C16_DropOnlyAfterMergeSucceeded ==
  /\ (cleanup.dropped \/ cleanup.purged) =>
       /\ entry = "micro"
       /\ submitted = 1
       /\ engine.state = "SUCCEEDED"
       /\ err = "none"
  /\ pc \in {"fatal", "exit"} => cleanup = NoCleanup

C16_Witness ==
  /\ entry = "micro"
  /\ pc = "done"
  /\ engine.state = "SUCCEEDED"
  /\ cleanup = [dropped |-> TRUE, purged |-> TRUE]

\* Positions of the reconciled columns the SET list may assign: destination
\* columns that are neither a primary key nor excluded from the update
ClaimAssignable ==
  {k \in 1..Len(res.stmt.merged) :
     /\ Lower(res.stmt.merged[k]) \in DOMAIN inp.dest_types
     /\ ~InSeq(res.stmt.merged[k], PkColsOf(entry, inp))
     /\ res.stmt.merged[k] \notin inp.exclude}

\* C19: the SET list of a returned statement is never empty, and when no
\* reconciled column is assignable it is exactly the self-assignment of the
\* first primary key
C19_SetListNeverEmpty ==
  Returned =>
    /\ Len(res.stmt.set) >= 1
    /\ ClaimAssignable = {} =>
         /\ Len(PkColsOf(entry, inp)) >= 1
         /\ res.stmt.set = <<[target |-> PkColsOf(entry, inp)[1],
                               rhs |-> [col |-> PkColsOf(entry, inp)[1], type |-> "self"]]>>

C19_Witness ==
  /\ Returned
  /\ ClaimAssignable = {}
  /\ res.stmt.fallback
  /\ Len(res.stmt.set) = 1

Deduplicated == Returned /\ entry = "micro" /\ inp.dedupe

ClaimRecencyPresent ==
  /\ Truthy(inp.updated_col)
  /\ \E k \in 1..Len(inp.src_cols) : Lower(inp.src_cols[k]) = Lower(inp.updated_col)

ClaimCreatedPresent == \E k \in 1..Len(inp.src_cols) : Lower(inp.src_cols[k]) = cCre

\* The tie-breakers the caller named, blank pieces aside
ClaimTiebreakers == SelectSeq(inp.tiebreakers, LAMBDA c : Strip(c) /= <<>>)

ClaimLaterKeys ==
  [k \in 1..Len(ClaimTiebreakers) |-> <<Strip(ClaimTiebreakers[k])>>]
    \o [k \in 1..Len(PkColsOf(entry, inp)) |-> <<PkColsOf(entry, inp)[k]>>]

\* C20 as stated: the ORDER BY keys of the ranking are the recency column when
\* designated and present (coalesced with created_at when that exists), then
\* the tie-breakers in the order given, then the primary keys
C20_Original ==
  Deduplicated =>
    res.stmt.using.order_parts =
      (IF ClaimRecencyPresent
       THEN (IF ClaimCreatedPresent THEN << <<inp.updated_col, cCre>> >>
             ELSE << <<inp.updated_col>> >>)
       ELSE <<>>) \o ClaimLaterKeys

\* C20, amended: as stated, except that created_at alone is the first key when
\* it exists and the recency column is not designated or not in the source
C20_OrderingPrecedence ==
  Deduplicated =>
    res.stmt.using.order_parts =
      (IF ClaimRecencyPresent
       THEN (IF ClaimCreatedPresent THEN << <<inp.updated_col, cCre>> >>
             ELSE << <<inp.updated_col>> >>)
       ELSE IF ClaimCreatedPresent THEN << <<cCre>> >>
       ELSE <<>>) \o ClaimLaterKeys

C20_Witness ==
  /\ Deduplicated
  /\ ~ClaimRecencyPresent
  /\ ClaimCreatedPresent
  /\ res.stmt.using.order_parts = << <<cCre>>, <<cExtra>>, <<cName>>, <<cId>> >>

\* C29: drop_staging_table purges the staging objects only when the staging
\* table was dropped; where both drop attempts fail the objects stay
C29_PurgeOnlyAfterDrop == cleanup.purged => cleanup.dropped

\* Columns _cast_expr_for_col compiles to a literal instead of a read of s
LiteralCols == {cOp, cTs}

\* Columns the USING subquery hands to the alias s: its projection when it
\* deduplicates, otherwise (SELECT *) the columns of the source table
ProducedCols(stmt, src_cols) ==
  IF stmt.using.kind = "dedup" THEN LowerSet(stmt.using.proj_cols) ELSE LowerSet(src_cols)

\* Columns the ON predicate reads through s
OnRefs(stmt) == {stmt.on[i] : i \in 1..Len(stmt.on)} \ LiteralCols

\* The column the recency guard reads through s
GuardRefs(stmt) == IF stmt.guard THEN {stmt.guard_col} ELSE {}

\* Columns the SET list reads through s (the fallback reads t)
SetRefs(stmt) ==
  {stmt.set[i].rhs.col : i \in {j \in 1..Len(stmt.set) : stmt.set[j].rhs.type /= "self"}}
    \ LiteralCols

\* Columns the INSERT values read through s
InsertRefs(stmt) == {stmt.insert_cols[i] : i \in 1..Len(stmt.insert_cols)} \ LiteralCols

ClaimProduced(refs) ==
  \A c \in refs : Lower(c) \in ProducedCols(res.stmt, inp.src_cols)

\* C28: every column a returned statement reads through the alias s, in the ON
\* predicate, the recency guard, the SET list and the INSERT values, is a
\* column the USING subquery produces
C28_SourceRefsProduced ==
  Returned =>
    /\ ClaimProduced(OnRefs(res.stmt))
    /\ ClaimProduced(GuardRefs(res.stmt))
    /\ ClaimProduced(SetRefs(res.stmt))
    /\ ClaimProduced(InsertRefs(res.stmt))

\* The part of C28 on the projection: every projected column is a column of
\* the source table
ClaimProjectionInSource ==
  Returned /\ res.stmt.using.kind = "dedup" =>
    LowerSet(res.stmt.using.proj_cols) \subseteq LowerSet(inp.src_cols)

\* The parts of C28 on the keys and on the guard, each alone
ClaimOnRefsProduced == Returned => ClaimProduced(OnRefs(res.stmt))

ClaimGuardRefsProduced == Returned => ClaimProduced(GuardRefs(res.stmt))

ClaimSetInsertRefsProduced ==
  Returned => ClaimProduced(SetRefs(res.stmt)) /\ ClaimProduced(InsertRefs(res.stmt))

----------------------------------------------------------------------------
(* Column alignment of the extracted frame (micro main, --align-ddl) *)

cCol0   == <<"c","o","l","_","0">>
cCol1   == <<"c","o","l","_","1">>
cCol2   == <<"c","o","l","_","2">>
cNameUp == <<"N","a","m","e">>
cQa     == <<"q","a">>
cQb     == <<"q","b">>
cQc     == <<"q","c">>

\* str(i) for the column positions the model uses
IndexDigits(i) == <<DigitChars[i + 1]>>

\* fetch_df: a missing or blank name becomes col_<i>, then every name is sanitized
FetchDfNames(raw) ==
  [i \in 1..Len(raw) |->
     sanitize_for_athena(IF raw[i] = None \/ Len(Strip(raw[i])) = 0
                         THEN <<"c","o","l","_">> \o IndexDigits(i - 1)
                         ELSE Strip(raw[i]))]

SanitizeAll(cols) == [i \in 1..Len(cols) |-> sanitize_for_athena(cols[i])]

\* A Python dict built from <<key, value>> pairs in order: the last pair of a
\* key wins
DictHas(pairs, k) == \E i \in 1..Len(pairs) : pairs[i][1] = k

DictGet(pairs, k) ==
  pairs[CHOOSE i \in 1..Len(pairs) :
          pairs[i][1] = k /\ \A j \in i+1..Len(pairs) : pairs[j][1] /= k][2]

\* DataFrame.rename(columns=mapping): every label the mapping knows is replaced
RenameCols(cols, pairs) ==
  [i \in 1..Len(cols) |-> IF DictHas(pairs, cols[i]) THEN DictGet(pairs, cols[i]) ELSE cols[i]]

\* {a[i]: b[i] for i in range(n)}
ZipPairs(a, b, n) == [i \in 1..n |-> <<a[i], b[i]>>]

\* target_cols: production columns if given, else the DDL columns, minus the
\* provenance columns
TargetCols(ddl_cols, prod_cols) ==
  SelectSeq(IF Len(prod_cols) > 0 THEN prod_cols ELSE ddl_cols,
            LAMBDA c : c \notin {cOp, cTs})

\* t_index = {c.lower(): c for c in target_cols}
TIndex(target_cols) == [i \in 1..Len(target_cols) |-> <<Lower(target_cols[i]), target_cols[i]>>]

\* Strategy A's rename_map: the first incoming column of each target name
RECURSIVE NameRenameMap(_, _, _)
NameRenameMap(df_cols, t_index, used) ==
  IF Len(df_cols) = 0 THEN <<>>
  ELSE LET lc == Lower(Head(df_cols))
       IN IF DictHas(t_index, lc) /\ lc \notin used
          THEN << <<Head(df_cols), DictGet(t_index, lc)>> >>
                 \o NameRenameMap(Tail(df_cols), t_index, used \cup {lc})
          ELSE NameRenameMap(Tail(df_cols), t_index, used)

\* Faulty variant of AlignBranch: tail alignment is tried before the name match
AlignBranchTailFirst(df_cols, ddl_cols, prod_cols) ==
  LET target_cols == TargetCols(ddl_cols, prod_cols)
  IN IF Len(ddl_cols) = 0 /\ Len(prod_cols) = 0 THEN "sanitize"
     ELSE IF Len(ddl_cols) > 0 /\ Len(df_cols) = Len(ddl_cols) THEN "positional"
     ELSE IF Len(target_cols) = 0 THEN "sanitize"
     ELSE IF Len(df_cols) >= Len(target_cols) THEN "tail"
     ELSE IF LowerSet(target_cols) \subseteq LowerSet(df_cols) THEN "name"
     ELSE "head"

\* The branch align_df_columns_with_pg takes
AlignBranch(df_cols, ddl_cols, prod_cols) ==
  LET target_cols == TargetCols(ddl_cols, prod_cols)
  IN IF Len(ddl_cols) = 0 /\ Len(prod_cols) = 0 THEN "sanitize"
     ELSE IF Len(ddl_cols) > 0 /\ Len(df_cols) = Len(ddl_cols) THEN "positional"
     ELSE IF Len(target_cols) = 0 THEN "sanitize"
     ELSE IF LowerSet(target_cols) \subseteq LowerSet(df_cols) THEN "name"
     ELSE IF Len(df_cols) >= Len(target_cols) THEN "tail"
     ELSE "head"

\* The column labels align_df_columns_with_pg returns
AlignedCols(df_cols, ddl_cols, prod_cols) ==
  LET target_cols == TargetCols(ddl_cols, prod_cols)
      b == AlignBranch(df_cols, ddl_cols, prod_cols)
      n_df == Len(df_cols)
      n_tgt == Len(target_cols)
  IN CASE b = "positional" ->
            SanitizeAll(RenameCols(df_cols, ZipPairs(df_cols, ddl_cols, n_df)))
       [] b = "name" ->
            SanitizeAll(RenameCols(df_cols, NameRenameMap(df_cols, TIndex(target_cols), {})))
       [] b = "tail" ->
            SanitizeAll(RenameCols(df_cols,
                          ZipPairs(SubSeq(df_cols, n_df - n_tgt + 1, n_df), target_cols, n_tgt)))
       [] b = "head" ->
            SanitizeAll(RenameCols(df_cols, ZipPairs(df_cols, target_cols, n_df)))
       [] OTHER -> SanitizeAll(df_cols)

\* Faulty variant of AlignWarnings: the tail branch prints a line as well
AlignWarningsOnTail(df_cols, ddl_cols, prod_cols) ==
  IF AlignBranch(df_cols, ddl_cols, prod_cols) \in {"tail", "head"} THEN 1 ELSE 0

\* The [WARN] lines of one alignment: only the head branch prints one (the tail
\* branch warns when len(df_tail) != n_tgt, which the slice rules out)
AlignWarnings(df_cols, ddl_cols, prod_cols) ==
  IF AlignBranch(df_cols, ddl_cols, prod_cols) = "head" THEN 1 ELSE 0

RawChoices ==
  { <<cExtra, cId, cName, cUpd>>, <<None, None, None>>, <<cId, cName, cUpd>>,
    <<cID, cNameUp, cUpd>>, <<cExtra, cQa, cQb, cQc>>, <<cQa, cQb>>,
    <<cExtra, cID, cName, cUpd>>, <<cId>> }

DdlChoices == { <<>>, <<cId, cName, cUpd>>, <<cId, cName, cUpd, cCre>>, <<cId, cNameUp>> }

ProdChoices == { <<>>, <<cId, cName, cUpd>>, <<cId, cName, cUpd, cOp, cTs>>, <<cOp, cTs>> }

AlignInit ==
  /\ pg_names \in RawChoices
  /\ pg_ddl \in DdlChoices
  /\ athena_cols \in ProdChoices
  /\ frame_cols = <<>>
  /\ align_branch = "none"
  /\ align_warns = 0
  /\ apc = "start"

\* main: df = fetch_df(conn, args.pg_sql)
FetchDf ==
  /\ apc = "start"
  /\ frame_cols' = FetchDfNames(pg_names)
  /\ apc' = "fetched"
  /\ UNCHANGED <<pg_names, pg_ddl, athena_cols, align_branch, align_warns, runVars, mergeVars, exprVars, dqVars>>

\* main: df = align_df_columns_with_pg(df, pg_ddl, athena_cols=athena_cols or None)
AlignDf ==
  /\ apc = "fetched"
  /\ frame_cols' = AlignedCols(frame_cols, pg_ddl, athena_cols)
  /\ align_branch' = AlignBranch(frame_cols, pg_ddl, athena_cols)
  /\ align_warns' = align_warns + AlignWarnings(frame_cols, pg_ddl, athena_cols)
  /\ apc' = "aligned"
  /\ UNCHANGED <<pg_names, pg_ddl, athena_cols, runVars, mergeVars, exprVars, dqVars>>

AlignNext == FetchDf \/ AlignDf

----------------------------------------------------------------------------
(* Claims about the alignment (specification SpecAlign) *)

\* C10 as stated: [extra,id,name,updated_at] against the 3-column target is
\* tail-aligned and extra is dropped from the result; 3 unnamed columns are
\* renamed positionally.
C10_Original ==
  apc = "aligned" =>
    /\ (pg_names = <<cExtra, cId, cName, cUpd>> /\ pg_ddl = <<cId, cName, cUpd>>
          /\ TargetCols(pg_ddl, athena_cols) = <<cId, cName, cUpd>>)
       => (align_branch = "tail" /\ frame_cols = <<cId, cName, cUpd>>)
    /\ (pg_names = <<None, None, None>> /\ pg_ddl = <<cId, cName, cUpd>>)
       => (align_branch = "positional" /\ frame_cols = <<cId, cName, cUpd>>)

\* C10 (amended): [extra,id,name,updated_at] against the 3-column target takes
\* the name-match branch, every column keeps its name and extra stays in the
\* result (alignment never drops a column); 3 unnamed columns are renamed
\* positionally, in order.
C10_NameMatchKeepsExtra ==
  apc = "aligned" =>
    /\ Len(frame_cols) = Len(pg_names)
    /\ (pg_names = <<cExtra, cId, cName, cUpd>> /\ pg_ddl = <<cId, cName, cUpd>>
          /\ TargetCols(pg_ddl, athena_cols) = <<cId, cName, cUpd>>)
       => (align_branch = "name" /\ frame_cols = <<cExtra, cId, cName, cUpd>>)
    /\ (pg_names = <<None, None, None>> /\ pg_ddl = <<cId, cName, cUpd>>)
       => (align_branch = "positional" /\ frame_cols = <<cId, cName, cUpd>>)

C10_Witness ==
  /\ apc = "aligned"
  /\ pg_names = <<cExtra, cId, cName, cUpd>> /\ pg_ddl = <<cId, cName, cUpd>>
  /\ athena_cols = <<cId, cName, cUpd, cOp, cTs>>
  /\ align_branch = "name"
  /\ InSeq(cExtra, frame_cols)

\* The incoming columns of the alignment, as fetch_df labelled them
ClaimIncoming == FetchDfNames(pg_names)

ClaimTargets == TargetCols(pg_ddl, athena_cols)

\* A run of the alignment that gets to the four reconciliation branches: some
\* target list is given and, past the first branch, it is not empty
ClaimReconciles ==
  /\ apc = "aligned"
  /\ (Len(pg_ddl) > 0 /\ Len(ClaimIncoming) = Len(pg_ddl)) \/ Len(ClaimTargets) > 0

\* The first applicable branch, in the order the claim gives
ClaimFirstBranch ==
  IF Len(pg_ddl) > 0 /\ Len(ClaimIncoming) = Len(pg_ddl) THEN "positional"
  ELSE IF \A k \in 1..Len(ClaimTargets) :
            \E j \in 1..Len(ClaimIncoming) : Lower(ClaimIncoming[j]) = Lower(ClaimTargets[k])
       THEN "name"
  ELSE IF Len(ClaimIncoming) >= Len(ClaimTargets) THEN "tail"
  ELSE "head"

C21_WitnessHead ==
  /\ ClaimReconciles
  /\ align_branch = "head"
  /\ align_warns = 1

----------------------------------------------------------------------------
(* Row-level meaning of the composed MERGE *)

\* SQL NULL of a varchar value; no text of the model holds this element
NullText == <<"<NULL>">>

\* The modelled tables: staging holds every column as text, production is typed.
\* Neither carries the provenance columns.
MergeCols == <<cId, cName, cUpd>>

MergeTypes == Restrict(FullTypes, {cId, cName, cUpd})

NullOf(type) == IF type \in {"bigint", "timestamp"} THEN NullNum ELSE NullText

\* Characters in code-point order: the order of varchar values
CharOrder == <<" ">> \o DigitChars \o UpperChars \o <<"_">> \o LowerChars

CharRank(c) == CHOOSE i \in 1..Len(CharOrder) : CharOrder[i] = c

\* a < b for two non-null varchar values
RECURSIVE TextLess(_, _)
TextLess(a, b) ==
  IF Len(b) = 0 THEN FALSE
  ELSE IF Len(a) = 0 THEN TRUE
  ELSE IF Head(a) = Head(b) THEN TextLess(Tail(a), Tail(b))
  ELSE CharRank(Head(a)) < CharRank(Head(b))

RECURSIVE DigitsValue(_)
DigitsValue(ds) ==
  IF Len(ds) = 0 THEN 0
  ELSE DigitsValue(SubSeq(ds, 1, Len(ds) - 1)) * 10 + DigitValue(ds[Len(ds)])

\* The integer branch of _cast_expr_for_col on a text without sign or
\* separators: every stage keeps the digits of the trimmed text, and a text
\* without a digit is NULL
IntCast(v) ==
  LET digits == SelectSeq(Strip(v), LAMBDA c : InSeq(c, DigitChars))
  IN IF v = NullText \/ Len(digits) = 0 THEN NullNum ELSE DigitsValue(digits)

\* The timestamp branch: trim, empty is NULL, else TRY_CAST
TimestampCast(v) ==
  IF v = NullText \/ Len(Strip(v)) = 0 THEN NullNum ELSE TsValue(Strip(v))

\* The value a compiled source expression takes on the source row s
CastValue(type, v) ==
  CASE type = "bigint"    -> IntCast(v)
    [] type = "timestamp" -> TimestampCast(v)
    [] OTHER              -> v

\* Right-hand side of one SET pair: a cast of the source column, or the
\* fallback's t.<pk>
EvalRhs(rhs, s, t) ==
  IF rhs.type = "self" THEN t[Lower(rhs.col)]
  ELSE CastValue(rhs.type, s[Lower(rhs.col)])

\* on_clause: t.<pk> = <cast of s.<pk>> for every key; a NULL side is not a match
OnMatches(stmt, types, s, t) ==
  \A k \in 1..Len(stmt.on) :
     LET c == Lower(stmt.on[k])
         v == CastValue(CastExpr(stmt.on[k], types).type, s[c])
     IN v /= NullOf(types[c]) /\ t[c] /= NullOf(types[c]) /\ t[c] = v

\* Faulty variant of RecencyNewer: the comparison of the guard is >=
RecencyNewerOrEqual(sv, tv) == Coalesce(sv, Epoch) >= Coalesce(tv, Epoch)

\* COALESCE(<source>, epoch) > COALESCE(<destination>, epoch)
RecencyNewer(sv, tv) == Coalesce(sv, Epoch) > Coalesce(tv, Epoch)

\* matched_guard on a matched pair: TRY_CAST(s.<u> AS timestamp) against t.<u>
GuardPasses(stmt, s, t) ==
  stmt.guard => RecencyNewer(TsValue(s[Lower(stmt.guard_col)]), t[Lower(stmt.guard_col)])

\* Value of one ORDER BY part on a staging row: the column, or the COALESCE
\* of its columns
OrderKey(part, s) ==
  LET nn == {i \in 1..Len(part) : s[Lower(part[i])] /= NullText}
  IN IF nn = {} THEN NullText ELSE s[Lower(part[Min(nn)])]

\* Key a sorts before key b under "<part> DESC": greater text first, NULL last
KeyBefore(a, b) == a /= NullText /\ (b = NullText \/ TextLess(b, a))

\* Row a sorts strictly before row b under order_clause
RECURSIVE RowBefore(_, _, _)
RowBefore(parts, a, b) ==
  IF Len(parts) = 0 THEN FALSE
  ELSE LET ka == OrderKey(Head(parts), a)
           kb == OrderKey(Head(parts), b)
       IN IF ka = kb THEN RowBefore(Tail(parts), a, b) ELSE KeyBefore(ka, kb)

\* PARTITION BY part_by: equal raw key values, NULLs in one partition
SamePartition(part_by, a, b) ==
  \A k \in 1..Len(part_by) : a[Lower(part_by[k])] = b[Lower(part_by[k])]

\* Rows ROW_NUMBER() may number 1: no row of the partition sorts before them
FirstRanked(using, rows) ==
  {i \in 1..Len(rows) :
     \A j \in 1..Len(rows) :
        SamePartition(using.part_by, rows[i], rows[j])
          => ~RowBefore(using.order_parts, rows[j], rows[i])}

\* The row sets the USING subquery can return, as positions of the staging
\* table: with dedup one first-ranked row of every partition (rows that tie on
\* every ORDER BY part are numbered in an order the engine picks), else all rows
UsingPositions(using, rows) ==
  IF using.kind = "dedup"
  THEN {P \in SUBSET FirstRanked(using, rows) :
          \A i \in 1..Len(rows) :
             Cardinality({q \in P : SamePartition(using.part_by, rows[i], rows[q])}) = 1}
  ELSE {1..Len(rows)}

RowsAt(rows, P) ==
  LET idx == SelectSeq([i \in 1..Len(rows) |-> i], LAMBDA i : i \in P)
  IN [k \in 1..Len(idx) |-> rows[idx[k]]]

\* The source rows a destination row matches
MatchedBy(stmt, types, urows, t) ==
  {i \in 1..Len(urows) : OnMatches(stmt, types, urows[i], t)}

\* UPDATE SET set_clause on one destination row
UpdatedRow(stmt, s, t) ==
  [c \in DOMAIN t |->
     LET ks == {k \in 1..Len(stmt.set) : Lower(stmt.set[k].target) = c}
     IN IF ks = {} THEN t[c] ELSE EvalRhs(stmt.set[Min(ks)].rhs, s, t)]

\* INSERT (insert_cols) VALUES (casts of the source row); other columns NULL
InsertedRow(stmt, types, s) ==
  [c \in DOMAIN types |->
     IF c \in LowerSet(stmt.insert_cols)
     THEN CastValue(CastExpr(c, types).type, s[c]) ELSE NullOf(types[c])]

\* WHEN MATCHED <guard>: the destination row t, matched by the source rows at
\* positions m, takes the UPDATE branch
Fires(stmt, urows, t, m) == m /= {} /\ GuardPasses(stmt, urows[Min(m)], t)

\* The MERGE on the production rows d, matched[j] being the source rows that
\* destination row j matches.  The engine fails the statement when a destination
\* row matches more than one source row; the table is then unchanged.
ApplyMatched(stmt, types, urows, d, matched) ==
  LET unmatched == SelectSeq([i \in 1..Len(urows) |-> i],
                             LAMBDA i : \A j \in 1..Len(d) : i \notin matched[j])
  IN IF \E j \in 1..Len(d) : Cardinality(matched[j]) > 1
     THEN [outcome |-> "FAILED", rows |-> d, updates |-> 0, skipped |-> 0, inserts |-> 0]
     ELSE [outcome |-> "SUCCEEDED",
           rows |-> [j \in 1..Len(d) |->
                       IF Fires(stmt, urows, d[j], matched[j])
                       THEN UpdatedRow(stmt, urows[Min(matched[j])], d[j]) ELSE d[j]]
                    \o [k \in 1..Len(unmatched) |-> InsertedRow(stmt, types, urows[unmatched[k]])],
           updates |-> Cardinality({j \in 1..Len(d) : Fires(stmt, urows, d[j], matched[j])}),
           skipped |-> Cardinality({j \in 1..Len(d) :
                                      matched[j] /= {} /\ ~Fires(stmt, urows, d[j], matched[j])}),
           inserts |-> Len(unmatched)]

\* One execution of the MERGE on the production rows d with source rows urows
ApplyMerge(stmt, types, urows, d) ==
  ApplyMatched(stmt, types, urows, d,
               [j \in 1..Len(d) |-> MatchedBy(stmt, types, urows, d[j])])

----------------------------------------------------------------------------
(* The staging and production tables under repeated MERGE statements *)

\* Largest staging table
MaxBatch == 2

\* MERGE statements run against one staging table
MaxReplays == 2

KeyTexts == {NullText, <<"1">>}

\* Staged recency texts: NULL, a timestamp, a text no timestamp cast accepts
RecencyTexts == {NullText, <<"1">>, <<"x">>}

NameTexts == {<<"a">>, <<"b">>}

StagingRow(k, n, u) == (cId :> k) @@ (cName :> n) @@ (cUpd :> u)

StagingRows == {StagingRow(k, n, u) : k \in KeyTexts, n \in NameTexts, u \in RecencyTexts}

\* Staging tables write_staging_parquet can leave behind
Batches == UNION {[1..n -> StagingRows] : n \in 1..MaxBatch}

\* Production tables a merge can find: empty, or holding key 1
InitialProds ==
  {<<>>} \cup {<<(cId :> 1) @@ (cName :> <<"a">>) @@ (cUpd :> u)>> : u \in {NullNum, 1, 2}}

\* Merge options: the recency column is designated (--updated-at-col updated_at)
MergeConfigs ==
  [updated_col : {cUpd}, exclude : {{cCre}, {cCre, cUpd}}, dedupe : BOOLEAN]

NoMerge == [outcome |-> "none", updates |-> 0, skipped |-> 0, inserts |-> 0, using |-> <<>>]

\* The statement main composes for the modelled tables
MergeStmt(cfg) ==
  MicroBuildMergeSql(<<cId>>, MergeCols, MergeTypes, cfg.updated_col, cfg.exclude,
                     <<>>, cfg.dedupe, <<>>).stmt

\* --mode merge-only: the staging and production tables exist
MergeInit ==
  /\ mcfg \in MergeConfigs
  /\ merge_sql = MergeStmt(mcfg)
  /\ staging \in Batches
  /\ prod \in InitialProds
  /\ applied = 0
  /\ last = NoMerge

\* The production table and the outcome the statement leaves behind
MergeEffect(urows, r) ==
  /\ prod' = r.rows
  /\ last' = [outcome |-> r.outcome, updates |-> r.updates, skipped |-> r.skipped,
              inserts |-> r.inserts, using |-> urows]

\* run_athena_sql(merge_sql): the MERGE runs against the staging table
RunMerge ==
  /\ applied < MaxReplays
  /\ \E P \in UsingPositions(merge_sql.using, staging) :
        MergeEffect(RowsAt(staging, P),
                    ApplyMerge(merge_sql, MergeTypes, RowsAt(staging, P), prod))
  /\ applied' = applied + 1
  /\ UNCHANGED <<mcfg, merge_sql, staging, runVars, alignVars, exprVars, dqVars>>

MergeNext == RunMerge

----------------------------------------------------------------------------
(* Claims about repeated merges (specification SpecMerge) *)

\* C2: when the statement carries the recency guard, running the MERGE again
\* on the same staging table fires no update and inserts no row.
C2_ReplayIsNoOp ==
  (applied >= 2 /\ merge_sql.guard /\ last.outcome = "SUCCEEDED")
    => (last.updates = 0 /\ last.inserts = 0)

\* C3: under the recency guard a MERGE changes a production row only if a
\* staged row with its key carries a recency strictly greater than the row's
\* (NULL and unparsable values count as the epoch); every inserted row comes
\* from a staged row that matched no production row; no row disappears and no
\* row's recency decreases.
C3_RecencyGuard ==
  [][LET stmt == merge_sql
     IN stmt.guard =>
          /\ Len(prod') >= Len(prod)
          /\ \A j \in 1..Len(prod) :
               /\ Coalesce(prod'[j][cUpd], Epoch) >= Coalesce(prod[j][cUpd], Epoch)
               /\ prod'[j] /= prod[j] =>
                    \E i \in 1..Len(staging) :
                       /\ OnMatches(stmt, MergeTypes, staging[i], prod[j])
                       /\ Coalesce(TsValue(staging[i][cUpd]), Epoch)
                            > Coalesce(prod[j][cUpd], Epoch)
          /\ \A k \in (Len(prod) + 1)..Len(prod') :
               \E i \in 1..Len(staging) :
                  /\ \A j \in 1..Len(prod) : ~OnMatches(stmt, MergeTypes, staging[i], prod[j])
                  /\ prod'[k] = InsertedRow(stmt, MergeTypes, staging[i])
    ]_vars

\* The staging table brings an older recency for a stored key: the row is
\* matched, the guard is false, nothing is updated or inserted
C3_Witness ==
  /\ applied = 1
  /\ merge_sql.guard
  /\ last.outcome = "SUCCEEDED"
  /\ last.skipped = 1 /\ last.updates = 0 /\ last.inserts = 0
  /\ Len(prod) = 1 /\ prod[1][cUpd] = 2
  /\ \E i \in 1..Len(last.using) :
        /\ OnMatches(merge_sql, MergeTypes, last.using[i], prod[1])
        /\ TsValue(last.using[i][cUpd]) = 1

\* C4: with dedup, of the staged rows sharing a key exactly one reaches the
\* match step, and it is the row of greatest recency whatever the order of the
\* rows.
C4_DedupPicksGreatestRecency ==
  (applied >= 1 /\ mcfg.dedupe /\ HasCol(mcfg.updated_col, MergeCols)) =>
    \A i \in 1..Len(staging) :
       LET group == {staging[q] : q \in {q \in 1..Len(staging) :
                                          SamePartition(<<cId>>, staging[i], staging[q])}}
           top == {r \in group : \A r2 \in group : ~KeyBefore(r2[cUpd], r[cUpd])}
           reached == {last.using[k] : k \in {k \in 1..Len(last.using) :
                                               SamePartition(<<cId>>, staging[i], last.using[k])}}
       IN Cardinality(reached) = 1 /\ reached = top

----------------------------------------------------------------------------
(* Deduplicated merges of staged keys that differ as text only *)

\* Staged texts of the integer key 1: as is, and with a leading blank
PaddedKeyTexts == {<<"1">>, <<" ", "1">>}

KeyedRows ==
  {StagingRow(k, <<"a">>, u) : k \in PaddedKeyTexts \cup {NullText}, u \in {NullText, <<"1">>}}

KeyedBatches == UNION {[1..n -> KeyedRows] : n \in 1..MaxBatch}

\* --mode merge-only on such a staging table
MergeKeysInit ==
  /\ mcfg \in MergeConfigs
  /\ merge_sql = MergeStmt(mcfg)
  /\ staging \in KeyedBatches
  /\ prod \in InitialProds
  /\ applied = 0
  /\ last = NoMerge

\* A destination row holding the integer key 1
ClaimDestRow == (cId :> 1) @@ (cName :> <<"a">>) @@ (cUpd :> NullNum)

\* C27: with dedup enabled, no destination row is matched under the ON
\* predicate by two of the source rows that survive rank = 1
C27_OneSurvivorPerDestinationRow ==
  mcfg.dedupe /\ last.outcome /= "none" =>
    Cardinality(MatchedBy(merge_sql, MergeTypes, last.using, ClaimDestRow)) <= 1

\* What the dedup does give: the survivors differ pairwise in the raw key text
ClaimSurvivorsDifferAsText ==
  mcfg.dedupe /\ last.outcome /= "none" =>
    \A i, j \in 1..Len(last.using) :
      i /= j => last.using[i][cId] /= last.using[j][cId]

----------------------------------------------------------------------------
(* The compiled cast expressions, evaluated on one text of the source column *)

\* A numeric SQL value: NULL, or a number counted in units of the target type
\* (ones for an integer type, 10^-DecimalScale for decimal(p, DecimalScale))
SqlNull == [null |-> TRUE, v |-> 0]

SqlNum(n) == [null |-> FALSE, v |-> n]

\* Scale of the decimal destination column
DecimalScale == 2

RECURSIVE Pow10(_)
Pow10(n) == IF n = 0 THEN 1 ELSE 10 * Pow10(n - 1)

DigitSet == {DigitChars[i] : i \in 1..Len(DigitChars)}

\* REPLACE(s, pat, rep) and str.replace(pat, rep), pat not empty
RECURSIVE ReplaceStr(_, _, _)
ReplaceStr(s, pat, rep) ==
  IF Len(s) < Len(pat) THEN s
  ELSE IF SubSeq(s, 1, Len(pat)) = pat
       THEN rep \o ReplaceStr(SubSeq(s, Len(pat) + 1, Len(s)), pat, rep)
       ELSE <<Head(s)>> \o ReplaceStr(Tail(s), pat, rep)

\* TRIM(s)
Trim(s) == Strip(s)

\* REGEXP_REPLACE(s, '[^...]', ''): only the characters of the class stay
KeepChars(s, class) == SelectSeq(s, LAMBDA c : c \in class)

\* Length of the run of digits s starts with
RECURSIVE DigitRun(_)
DigitRun(s) ==
  IF Len(s) > 0 /\ Head(s) \in DigitSet THEN 1 + DigitRun(Tail(s)) ELSE 0

\* REGEXP_EXTRACT(s, '^-?[0-9]+'): NULL when s does not start with the pattern
RegexpExtractLeadingInt(s) ==
  LET sign == IF Len(s) > 0 /\ Head(s) = "-" THEN 1 ELSE 0
      run  == DigitRun(SubSeq(s, sign + 1, Len(s)))
  IN IF run = 0 THEN NullText ELSE SubSeq(s, 1, sign + run)

\* SPLIT_PART(s, d, 1): the text before the first d, all of s without one
RECURSIVE SplitPartFirst(_, _)
SplitPartFirst(s, d) ==
  IF Len(s) = 0 \/ Head(s) = d THEN <<>>
  ELSE <<Head(s)>> \o SplitPartFirst(Tail(s), d)

\* NULLIF(s, '')
NullIfEmpty(s) == IF s = <<>> THEN NullText ELSE s

\* A text the engine reads as a number: an optional sign, digits, at most one
\* point, at least one digit
IsNumberText(s) ==
  LET body == IF Len(s) > 0 /\ Head(s) = "-" THEN Tail(s) ELSE s
  IN /\ \A i \in 1..Len(body) : body[i] \in DigitSet \cup {"."}
     /\ Cardinality({i \in 1..Len(body) : body[i] = "."}) <= 1
     /\ \E i \in 1..Len(body) : body[i] \in DigitSet

\* The number a number text denotes, rounded half up to scale fraction digits
\* and counted in units of 10^-scale
NumberValue(s, scale) ==
  LET neg   == Head(s) = "-"
      body  == IF neg THEN Tail(s) ELSE s
      whole == SplitPartFirst(body, ".")
      frac  == SubSeq(body, Len(whole) + 2, Len(body))
      kept  == SubSeq(frac, 1, Min({scale, Len(frac)}))
      up    == IF Len(frac) > scale /\ DigitValue(frac[scale + 1]) >= 5 THEN 1 ELSE 0
      mag   == DigitsValue(whole) * Pow10(scale)
                 + DigitsValue(kept) * Pow10(scale - Len(kept)) + up
  IN IF neg THEN 0 - mag ELSE mag

\* TRY_CAST(s AS <integer type>): only an optional sign and digits parse
TryCastInteger(s) ==
  IF s /= NullText /\ IsNumberText(s) /\ ~InSeq(".", s)
  THEN SqlNum(NumberValue(s, 0)) ELSE SqlNull

\* TRY_CAST(s AS decimal(p, DecimalScale)), and TRY_CAST(TRY_CAST(s AS DOUBLE)
\* AS decimal(p, DecimalScale)) on the texts of the model
TryCastDecimal(s) ==
  IF s /= NullText /\ IsNumberText(s)
  THEN SqlNum(NumberValue(s, DecimalScale)) ELSE SqlNull

TryCast(s, tt) == IF tt = "bigint" THEN TryCastInteger(s) ELSE TryCastDecimal(s)

\* COALESCE(a, b, c)
Coalesce3(a, b, c) == IF ~a.null THEN a ELSE IF ~b.null THEN b ELSE c

SeparatorClass == DigitSet \cup {"-", ",", "."}

SignClass == DigitSet \cup {"-"}

PointClass == DigitSet \cup {"-", "."}

\* The six characters backslash, u, 0, 0, A, 0 that micro's REPLACE removes
NbspEscape == <<"\\", "u", "0", "0", "A", "0">>

\* REGEXP_REPLACE(s, p, '') with the pattern backfill's first stage is given,
\* the six characters backslash, backslash, p, {Zs}: an escaped backslash and
\* the text p{Zs} after it
ZsPattern == <<"\\", "p", "{", "Z", "s", "}">>

\* REGEXP_REPLACE(s, p, '') with the pattern backfill's second stage is given,
\* the three characters backslash, backslash, point: an escaped backslash and
\* any one character after it
RECURSIVE RemoveBackslashPairs(_)
RemoveBackslashPairs(s) ==
  IF Len(s) = 0 THEN <<>>
  ELSE IF Len(s) > 1 /\ Head(s) = "\\" THEN RemoveBackslashPairs(Tail(Tail(s)))
  ELSE <<Head(s)>> \o RemoveBackslashPairs(Tail(s))

\* micro _cast_expr_for_col, base
MicroBase(v) == Trim(ReplaceStr(v, NbspEscape, <<>>))

\* _numeric_parse_expr (backfill), applied to integer, decimal and float
\* targets alike
BackfillNumericExpr(v, tt) ==
  LET p1 == TryCast(NullIfEmpty(RegexpExtractLeadingInt(
                      KeepChars(Trim(ReplaceStr(v, ZsPattern, <<>>)), SeparatorClass))), tt)
      p2 == TryCast(NullIfEmpty(KeepChars(
                      SplitPartFirst(RemoveBackslashPairs(Trim(v)), ","), SignClass)), tt)
      p3 == TryCast(NullIfEmpty(KeepChars(
                      SplitPartFirst(ReplaceStr(Trim(v), <<",">>, <<>>), "."), SignClass)), tt)
  IN IF v = NullText THEN SqlNull ELSE Coalesce3(p1, p2, p3)

\* micro _cast_expr_for_col, integer branch
MicroIntegerExpr(v, tt) ==
  LET base == MicroBase(v)
      p1 == TryCast(NullIfEmpty(RegexpExtractLeadingInt(KeepChars(base, SeparatorClass))), tt)
      p2 == TryCast(NullIfEmpty(KeepChars(
                      SplitPartFirst(ReplaceStr(base, <<".">>, <<>>), ","), SignClass)), tt)
      p3 == TryCast(NullIfEmpty(KeepChars(
                      SplitPartFirst(ReplaceStr(base, <<",">>, <<>>), "."), SignClass)), tt)
  IN IF v = NullText THEN SqlNull ELSE Coalesce3(p1, p2, p3)

\* micro _cast_expr_for_col, decimal/float branch
MicroDecimalExpr(v, tt) ==
  LET base     == MicroBase(v)
      id_to_en == ReplaceStr(ReplaceStr(base, <<".">>, <<>>), <<",">>, <<".">>)
      en_clean == ReplaceStr(base, <<",">>, <<>>)
  IN IF v = NullText THEN SqlNull
     ELSE Coalesce3(TryCastDecimal(NullIfEmpty(id_to_en)),
                    TryCastDecimal(NullIfEmpty(en_clean)),
                    TryCast(NullIfEmpty(KeepChars(base, PointClass)), tt))

TrueTokens == {<<"t">>, <<"t","r","u","e">>, <<"1">>, <<"y">>, <<"y","e","s">>}

FalseTokens == {<<"f">>, <<"f","a","l","s","e">>, <<"0">>, <<"n">>, <<"n","o">>}

\* Faulty variant of BooleanExpr: the trimmed text is compared without LOWER
BooleanExprCaseSensitive(v) ==
  IF v = NullText THEN "NULL"
  ELSE IF Trim(v) \in TrueTokens THEN "TRUE"
  ELSE IF Trim(v) \in FalseTokens THEN "FALSE"
  ELSE "NULL"

\* _boolean_parse_expr (backfill) and the boolean branch of micro's
\* _cast_expr_for_col: "TRUE", "FALSE" or "NULL"
BooleanExpr(v) ==
  IF v = NullText THEN "NULL"
  ELSE LET norm == Lower(Trim(v))
       IN IF norm \in TrueTokens THEN "TRUE"
          ELSE IF norm \in FalseTokens THEN "FALSE"
          ELSE "NULL"

\* _cast_expr_for_col of either entry point, for a bigint, decimal or boolean
\* destination column
CastExprForCol(e, tt, v) ==
  CASE tt = "boolean"  -> BooleanExpr(v)
    [] e = "backfill"  -> BackfillNumericExpr(v, tt)
    [] tt = "bigint"   -> MicroIntegerExpr(v, tt)
    [] OTHER           -> MicroDecimalExpr(v, tt)

----------------------------------------------------------------------------
(* The type classes of the two _cast_expr_for_col *)

\* str.startswith
StartsWith(s, p) == Len(s) >= Len(p) /\ SubSeq(s, 1, Len(p)) = p

tyTinyint == <<"t", "i", "n", "y", "i", "n", "t">>

tySmallint == <<"s", "m", "a", "l", "l", "i", "n", "t">>

tyInteger == <<"i", "n", "t", "e", "g", "e", "r">>

tyInt == <<"i", "n", "t">>

tyBigint == <<"b", "i", "g", "i", "n", "t">>

tyDouble == <<"d", "o", "u", "b", "l", "e">>

tyReal == <<"r", "e", "a", "l">>

tyFloat == <<"f", "l", "o", "a", "t">>

tyDoublePrecision == <<"d", "o", "u", "b", "l", "e", " ", "p", "r", "e", "c", "i", "s", "i", "o", "n">>

tyDecimal == <<"d", "e", "c", "i", "m", "a", "l">>

tyDecimal102 == <<"d", "e", "c", "i", "m", "a", "l", "(", "1", "0", ",", "2", ")">>

tyNumeric102 == <<"n", "u", "m", "e", "r", "i", "c", "(", "1", "0", ",", "2", ")">>

tyBoolean == <<"b", "o", "o", "l", "e", "a", "n">>

tyBool == <<"b", "o", "o", "l">>

tyDate == <<"d", "a", "t", "e">>

tyTimestamp == <<"t", "i", "m", "e", "s", "t", "a", "m", "p">>

tyTimestamp3 == <<"t", "i", "m", "e", "s", "t", "a", "m", "p", "(", "3", ")">>

tyVarchar == <<"v", "a", "r", "c", "h", "a", "r">>

tyString == <<"s", "t", "r", "i", "n", "g">>

tyBigintPadded == <<" ", "B", "I", "G", "I", "N", "T", " ">>

\* Destination type strings the catalog can report
TypeTexts ==
  { tyTinyint, tySmallint, tyInteger, tyInt, tyBigint,
    tyDouble, tyReal, tyFloat, tyDoublePrecision, tyDecimal,
    tyDecimal102, tyNumeric102, tyBoolean, tyBool, tyDate,
    tyTimestamp, tyTimestamp3, tyVarchar, tyString, tyBigintPadded }

\* backfill: tt = target_type.strip().lower(), then the first of
\* _is_int_type / _is_decimal_type / _is_float_type (all compiled by
\* _numeric_parse_expr), _is_boolean_type, _is_timestamp_type / _is_date_type
BackfillTypeClass(target_type) ==
  LET tt == Lower(Strip(target_type))
  IN IF tt \in {tyTinyint, tySmallint, tyInteger, tyInt, tyBigint} THEN "integer"
     ELSE IF StartsWith(tt, tyDecimal) \/ StartsWith(tt, <<"n","u","m","e","r","i","c">>)
     THEN "decimal/float"
     ELSE IF tt \in {tyDouble, tyReal, tyFloat, tyDoublePrecision} THEN "decimal/float"
     ELSE IF tt \in {tyBoolean, tyBool} THEN "boolean"
     ELSE IF StartsWith(tt, tyTimestamp) \/ tt = tyDate THEN "date/timestamp"
     ELSE "other"

\* micro: t = _normalize_ts_type(target_type), then the first of
\* _is_integer_type, _is_decimal_float_type, t == "boolean",
\* t in ("timestamp", "date")
MicroTypeClass(target_type) ==
  LET t == IF StartsWith(Strip(Lower(target_type)), tyTimestamp)
           THEN tyTimestamp ELSE Strip(Lower(target_type))
  IN IF t \in {tyInteger, tyBigint, tySmallint} THEN "integer"
     ELSE IF StartsWith(t, tyDecimal) \/ t \in {tyDouble, tyReal, tyFloat} THEN "decimal/float"
     ELSE IF t = tyBoolean THEN "boolean"
     ELSE IF t \in {tyTimestamp, tyDate} THEN "date/timestamp"
     ELSE "other"

TypeClassOf(e, target_type) ==
  IF e = "backfill" THEN BackfillTypeClass(target_type) ELSE MicroTypeClass(target_type)

----------------------------------------------------------------------------
(* Quoting of identifiers and literals *)

\* Faulty variant of qident: embedded double quotes are left single
qidentUndoubled(x) == <<"\"">> \o x \o <<"\"">>

\* qident, and the inline s."{safe_col}" of _cast_expr_for_col
qident(x) == <<"\"">> \o DoubleChar(x, "\"") \o <<"\"">>

cBackfill == <<"b","a","c","k","f","i","l","l">>

\* The quoted text of CAST('{lit}' AS tt) for the __op column
OpLiteral(op_literal) ==
  <<"'">> \o DoubleChar(IF Truthy(op_literal) THEN op_literal ELSE cBackfill, "'") \o <<"'">>

Raised == <<"<ValueError>">>

\* The quoted text of _ts_literal's TIMESTAMP '{safe}', or its ValueError
TsLiteralQuoted(ts_str) ==
  IF TsLiteralRaises(ts_str) THEN Raised ELSE <<"'">> \o TsLiteral(ts_str) \o <<"'">>

----------------------------------------------------------------------------
(* One application of a pure function of the compiler *)

\* Longest text of the enumerated source values
MaxTextLen == 3

NumberChars == {"1", "5", ".", ",", "-", " "}

ShortTexts == UNION {[1..k -> NumberChars] : k \in 0..MaxTextLen}

tIdDecimal == <<"1", ".", "2", "3", "4", ",", "5", "6">>

tEnDecimal == <<"1", ",", "2", "3", "4", ".", "5", "6">>

tPlain == <<"1", "2", "3", "4">>

tIdThousands == <<"1", ".", "2", "3", "4">>

tEnThousands == <<"1", ",", "2", "3", "4">>

NumberTexts ==
  ShortTexts \cup {NullText, tIdDecimal, tEnDecimal, tPlain, tIdThousands, tEnThousands}

UpperChar(c) ==
  IF InSeq(c, LowerChars)
  THEN UpperChars[CHOOSE i \in 1..Len(LowerChars) : LowerChars[i] = c] ELSE c

\* Every spelling of a word in upper and lower case letters
RECURSIVE CaseVariants(_)
CaseVariants(w) ==
  IF Len(w) = 0 THEN {<<>>}
  ELSE {<<c>> \o r : c \in {Head(w), UpperChar(Head(w))}, r \in CaseVariants(Tail(w))}

Padded(S) == S \cup {<<" ">> \o s : s \in S} \cup {s \o <<" ">> : s \in S}

BooleanTexts ==
  Padded(UNION {CaseVariants(w) : w \in TrueTokens \cup FalseTokens})
    \cup {NullText, <<>>, <<" ">>, <<"m","a","y","b","e">>, <<"2">>, <<"t","r","u">>,
          <<"y","e","s","s">>, <<"o","n">>, <<"T"," ","R","U","E">>}

CastInputs ==
  [fn : {"cast"}, entry : {"backfill", "micro"}, type : {"bigint", "decimal"}, text : NumberTexts]
    \cup [fn : {"cast"}, entry : {"backfill", "micro"}, type : {"boolean"}, text : BooleanTexts]

QuoteChars == {"a", "\"", "'", " "}

QuoteTexts == UNION {[1..k -> QuoteChars] : k \in 0..MaxTextLen}

QuoteInputs == [fn : {"qident", "op_literal", "ts_literal"}, text : QuoteTexts]

SanitizeChars == {"a", "A", "1", "_", " ", "-"}

SanitizeTexts == {None} \cup UNION {[1..k -> SanitizeChars] : k \in 0..MaxTextLen}

SanitizeInputs == [fn : {"sanitize"}, text : SanitizeTexts]

TypeInputs == [fn : {"type_class"}, entry : {"backfill", "micro"}, text : TypeTexts]

ExprInputs == CastInputs \cup QuoteInputs \cup SanitizeInputs \cup TypeInputs

ExprInit ==
  /\ expr_in \in ExprInputs
  /\ expr_out = "none"
  /\ epc = "start"

\* The engine evaluates the compiled expression of one column on one source row
EvalCastExpr ==
  /\ epc = "start"
  /\ expr_in.fn = "cast"
  /\ expr_out' = CastExprForCol(expr_in.entry, expr_in.type, expr_in.text)
  /\ epc' = "done"
  /\ UNCHANGED <<expr_in, runVars, alignVars, mergeVars, dqVars>>

\* build_merge_sql quotes one identifier
QuoteIdent ==
  /\ epc = "start"
  /\ expr_in.fn = "qident"
  /\ expr_out' = qident(expr_in.text)
  /\ epc' = "done"
  /\ UNCHANGED <<expr_in, runVars, alignVars, mergeVars, dqVars>>

\* _cast_expr_for_col renders the provenance tag, _ts_literal a window bound
QuoteLiteral ==
  /\ epc = "start"
  /\ expr_in.fn \in {"op_literal", "ts_literal"}
  /\ expr_out' = IF expr_in.fn = "op_literal" THEN OpLiteral(expr_in.text)
                  ELSE TsLiteralQuoted(expr_in.text)
  /\ epc' = "done"
  /\ UNCHANGED <<expr_in, runVars, alignVars, mergeVars, dqVars>>

\* sanitize_for_athena applied to one name
Sanitize ==
  /\ epc = "start"
  /\ expr_in.fn = "sanitize"
  /\ expr_out' = sanitize_for_athena(expr_in.text)
  /\ epc' = "done"
  /\ UNCHANGED <<expr_in, runVars, alignVars, mergeVars, dqVars>>

\* _cast_expr_for_col picks the branch of one destination type string
ClassifyType ==
  /\ epc = "start"
  /\ expr_in.fn = "type_class"
  /\ expr_out' = TypeClassOf(expr_in.entry, expr_in.text)
  /\ epc' = "done"
  /\ UNCHANGED <<expr_in, runVars, alignVars, mergeVars, dqVars>>

ExprNext == EvalCastExpr \/ QuoteIdent \/ QuoteLiteral \/ Sanitize \/ ClassifyType

----------------------------------------------------------------------------
(* Claims on the cast expressions *)

Evaluated(tt) == epc = "done" /\ expr_in.fn = "cast" /\ expr_in.type = tt

\* 1234.56 in units of the decimal destination column
ClaimDecimalValue == 123456 * Pow10(DecimalScale - 2)

\* C11: against a decimal destination type the compiled expression of each
\* entry point evaluates both "1.234,56" and "1,234.56" to 1234.56
C11_DecimalBothConventions ==
  (Evaluated("decimal") /\ expr_in.text \in {tIdDecimal, tEnDecimal})
    => expr_out = SqlNum(ClaimDecimalValue)

\* C12: against an integer destination type the three-stage chain evaluates
\* "1234", "1.234" and "1,234" each to 1234
C12_IntegerBothConventions ==
  (Evaluated("bigint") /\ expr_in.text \in {tPlain, tIdThousands, tEnThousands})
    => expr_out = SqlNum(1234)

ClaimTrueWords == {<<"t">>, <<"t","r","u","e">>, <<"1">>, <<"y">>, <<"y","e","s">>}

ClaimFalseWords == {<<"f">>, <<"f","a","l","s","e">>, <<"0">>, <<"n">>, <<"n","o">>}

\* a spells the word w in some mix of upper and lower case
ClaimSpells(a, w) ==
  /\ Len(a) = Len(w)
  /\ \A i \in 1..Len(w) : a[i] = w[i] \/ a[i] = UpperChar(w[i])

ClaimSpellsOneOf(v, words) ==
  v /= NullText /\ \E w \in words : ClaimSpells(Strip(v), w)

\* C13: after trimming and in every letter case, t/true/1/y/yes give TRUE,
\* f/false/0/n/no give FALSE, every other text gives NULL, and there is no
\* other outcome
C13_BooleanMapping ==
  Evaluated("boolean") =>
    expr_out = (IF ClaimSpellsOneOf(expr_in.text, ClaimTrueWords) THEN "TRUE"
                ELSE IF ClaimSpellsOneOf(expr_in.text, ClaimFalseWords) THEN "FALSE"
                ELSE "NULL")

C13_Witness ==
  /\ Evaluated("boolean")
  /\ expr_in.text = <<" ", "Y", "e", "S">>
  /\ expr_out = "TRUE"

----------------------------------------------------------------------------
(* Claims on the two entry points' casts *)

\* The two entry points put the classified type string in one class
ClaimSameTypeClass ==
  epc = "done" /\ expr_in.fn = "type_class" =>
    BackfillTypeClass(expr_in.text) = MicroTypeClass(expr_in.text)

\* The two entry points' expressions take the same value on the source text
ClaimSameValue ==
  epc = "done" /\ expr_in.fn = "cast" =>
    CastExprForCol("backfill", expr_in.type, expr_in.text)
      = CastExprForCol("micro", expr_in.type, expr_in.text)

\* C26: for every destination type string the two _cast_expr_for_col place
\* the column in the same type class, and the expressions they compile for it
\* evaluate every source text to the same value
C26_EntryPointsAgree == ClaimSameTypeClass /\ ClaimSameValue

\* Where the entry points do agree: the boolean class of "boolean", and the
\* values of the boolean expression
ClaimBooleanAgrees ==
  /\ epc = "done" /\ expr_in.fn = "cast" /\ expr_in.type = "boolean" =>
       CastExprForCol("backfill", "boolean", expr_in.text)
         = CastExprForCol("micro", "boolean", expr_in.text)
  /\ epc = "done" /\ expr_in.fn = "cast" /\ expr_in.type = "bigint"
       /\ expr_in.text \in {tPlain, <<"1">>, <<" ", "1">>, <<"-", "1">>} =>
       CastExprForCol("backfill", "bigint", expr_in.text)
         = CastExprForCol("micro", "bigint", expr_in.text)

----------------------------------------------------------------------------
(* Claims on quoting and on the sanitizer *)

\* What the engine's scanner reads from a quoted form s opened by q at s[1]:
\* a doubled q is one q of the text, a single q closes; end is the position of
\* the closing q, 0 when the form is never closed
RECURSIVE ClaimScan(_, _, _, _)
ClaimScan(s, q, i, acc) ==
  IF i > Len(s) THEN [text |-> acc, end |-> 0]
  ELSE IF s[i] /= q THEN ClaimScan(s, q, i + 1, Append(acc, s[i]))
  ELSE IF i < Len(s) /\ s[i + 1] = q THEN ClaimScan(s, q, i + 2, Append(acc, q))
  ELSE [text |-> acc, end |-> i]

Quoted(f) == epc = "done" /\ expr_in.fn = f

\* C17: a quoted identifier opens with a double quote, reads back as the name
\* it was made from and is closed by its last character only; a rendered
\* provenance tag or window bound opens with a single quote and is closed by
\* its last character only
C17_QuotingRoundTrip ==
  /\ Quoted("qident") =>
       /\ Head(expr_out) = "\""
       /\ ClaimScan(expr_out, "\"", 2, <<>>) = [text |-> expr_in.text, end |-> Len(expr_out)]
  /\ ((Quoted("op_literal") \/ Quoted("ts_literal")) /\ expr_out /= Raised) =>
       /\ Head(expr_out) = "'"
       /\ ClaimScan(expr_out, "'", 2, <<>>).end = Len(expr_out)

C17_Witness ==
  /\ Quoted("qident")
  /\ expr_in.text = <<"a", "\"", "a">>
  /\ expr_out = <<"\"", "a", "\"", "\"", "a", "\"">>

ClaimNameChars == {LowerChars[i] : i \in 1..Len(LowerChars)} \cup DigitSet \cup {"_"}

\* C18: sanitize_for_athena returns a non-empty name of a-z, 0-9 and
\* underscore that does not start with a digit, and sanitizing the result
\* again changes nothing
C18_SanitizedNameShape ==
  Quoted("sanitize") =>
    /\ Len(expr_out) > 0
    /\ \A i \in 1..Len(expr_out) : expr_out[i] \in ClaimNameChars
    /\ expr_out[1] \notin DigitSet
    /\ sanitize_for_athena(expr_out) = expr_out

----------------------------------------------------------------------------
(* The hourly data-quality comparison: dql.py *)

\* Longest list of --check arguments
MaxChecks == 2

\* Longest window, in days
MaxDays == 2

\* Hourly slots of one day of the grid
SlotsPerDay == 2

\* Largest batch_size of write_results
MaxBatchSize == 3

\* read_sql(self, sql, database, max_attempts=4)
max_attempts == 4

NoExit == -1

\* Exit status of an exception nobody catches
ExitUncaught == 1

NoRead == [kind |-> "none", attempt |-> 0]

\* DQHourlyRunner.pg_dbname
pg_dbname == <<"p">>

\* The fields of CheckSpec that reach the rows; parse_check_arg splits on "|",
\* so no field holds one
CheckChoices ==
  { [id |-> <<"a">>, src_table |-> <<"s">>, slv_db |-> <<"d">>, slv_table |-> <<"t">>],
    [id |-> <<"b">>, src_table |-> <<"r">>, slv_db |-> <<"d">>, slv_table |-> <<"t">>],
    [id |-> <<"c">>, src_table |-> <<"s">>, slv_db |-> <<"d">>, slv_table |-> <<"u">>] }

\* --check is required: at least one
SpecLists == UNION { [1..n -> CheckChoices] : n \in 1..MaxChecks }

\* str(date) of the d-th day of the window
DateText(d) == <<"2","0","2","4","-","0","1","-","0", DigitChars[d + 1]>>

\* strftime("%H:00:00") of the h-th hour of a day, h from 0
HourText(h) == <<"0", DigitChars[h + 1], ":", "0", "0", ":", "0", "0">>

\* ensure_hour_grid_range: the slots of [start_dt, end_dt), in order
HourSlots(days) ==
  [k \in 1..(days * SlotsPerDay) |->
     [date |-> DateText(((k - 1) \div SlotsPerDay) + 1),
      hour |-> HourText((k - 1) % SlotsPerDay)]]

\* hashlib.md5(...).hexdigest(): equal texts give equal digests, and distinct
\* texts are given distinct ones
Md5Hex(s) == <<"md5:">> \o s

\* f"{database_source}|{catalog_name}|{table_name}|{date}"
IdText(database_source, catalog_name, table_name, date) ==
  database_source \o <<"|">> \o catalog_name \o <<"|">> \o table_name \o <<"|">> \o date

\* run_all: the frame of one check, one row per slot of the grid; the counts,
\* status, diff, large and ingestion_at columns are left out
CheckFrame(spec, days) ==
  [k \in 1..(days * SlotsPerDay) |->
     [id              |-> Md5Hex(IdText(pg_dbname, spec.slv_db, spec.slv_table,
                                        HourSlots(days)[k].date)),
      database_source |-> pg_dbname,
      catalog_name    |-> spec.slv_db,
      table_name      |-> spec.slv_table,
      created_at      |-> HourSlots(days)[k].date,
      created_hours   |-> HourSlots(days)[k].hour]]

\* pd.concat(frames, ignore_index=True)
RECURSIVE Concat(_)
Concat(fs) == IF Len(fs) = 0 THEN <<>> ELSE Head(fs) \o Concat(Tail(fs))

DqInit ==
  /\ dq_specs \in SpecLists
  /\ dq_days \in 1..MaxDays
  /\ dq_pc = "start"
  /\ dq_i = 1
  /\ pg_conn = "none"
  /\ had_error = FALSE
  /\ frames = <<>>
  /\ dq_log = <<>>
  /\ attempt = 0
  /\ sleeps = 0
  /\ read_out = NoRead
  /\ df_rows = <<>>
  /\ batch_size = 0
  /\ offset = 0
  /\ batches = <<>>
  /\ dq_engine = NoEngine
  /\ exit_code = NoExit

\* run_all: self.pg.connect(), before the try
Connect ==
  /\ dq_pc = "start"
  /\ \E ok \in BOOLEAN :
       IF ok
       THEN pg_conn' = "open" /\ dq_pc' = "check" /\ exit_code' = exit_code
       ELSE pg_conn' = pg_conn /\ dq_pc' = "exit" /\ exit_code' = ExitUncaught
  /\ UNCHANGED <<dq_specs, dq_days, dq_i, had_error, frames, dq_log, attempt, sleeps,
                 read_out, df_rows, batch_size, offset, batches, dq_engine,
                 runVars, alignVars, mergeVars, exprVars>>

\* run_all: assert_database_exists, fetch_hourly_counts_range_utc and the
\* assert_database_exists of hourly_counts_range_utc; any of them may raise,
\* which the except clause of the check catches
CheckSource ==
  /\ dq_pc = "check" /\ dq_i <= Len(dq_specs)
  /\ \E raised \in BOOLEAN :
       IF raised
       THEN /\ had_error' = TRUE
            /\ dq_log' = Append(dq_log, "ERROR")
            /\ dq_i' = dq_i + 1
            /\ UNCHANGED <<dq_pc, attempt, sleeps, read_out>>
       ELSE /\ dq_pc' = "read_sql"
            /\ attempt' = 0
            /\ sleeps' = 0
            /\ read_out' = NoRead
            /\ UNCHANGED <<had_error, dq_log, dq_i>>
  /\ UNCHANGED <<dq_specs, dq_days, pg_conn, frames, df_rows, batch_size, offset,
                 batches, dq_engine, exit_code, runVars, alignVars, mergeVars, exprVars>>

\* Faulty variant of ReadSqlSleeps: backs off after the last attempt too
ReadSqlSleepsAlways(att, maxa) == TRUE

\* read_sql, a failed attempt: "if attempt == max_attempts: raise" comes before
\* backoff_sleep(attempt)
ReadSqlSleeps(att, maxa) == att /= maxa

\* read_sql: one pass of the attempt loop, and when the call ends, what run_all
\* does with its result: the frame of the check is appended, or the except
\* clause of the check records the error
ReadSqlAttempt ==
  /\ dq_pc = "read_sql"
  /\ attempt' = attempt + 1
  /\ \E ok \in BOOLEAN :
       IF ok
       THEN /\ read_out' = [kind |-> "returned", attempt |-> attempt']
            /\ frames' = Append(frames, CheckFrame(dq_specs[dq_i], dq_days))
            /\ dq_log' = Append(dq_log, "TIME")
            /\ dq_i' = dq_i + 1
            /\ dq_pc' = "check"
            /\ UNCHANGED <<sleeps, had_error>>
       ELSE /\ sleeps' = IF ReadSqlSleeps(attempt', max_attempts) THEN sleeps + 1 ELSE sleeps
            /\ IF attempt' = max_attempts
               THEN /\ read_out' = [kind |-> "raised", attempt |-> attempt']
                    /\ had_error' = TRUE
                    /\ dq_log' = Append(dq_log, "ERROR")
                    /\ dq_i' = dq_i + 1
                    /\ dq_pc' = "check"
               ELSE UNCHANGED <<read_out, had_error, dq_log, dq_i, dq_pc>>
            /\ UNCHANGED frames
  /\ UNCHANGED <<dq_specs, dq_days, pg_conn, df_rows, batch_size, offset, batches,
                 dq_engine, exit_code, runVars, alignVars, mergeVars, exprVars>>

\* run_all after the last check: finally self.pg.close(), the frames are
\* concatenated, and main hands the frame to write_results
RunAllReturn ==
  /\ dq_pc = "check" /\ dq_i > Len(dq_specs)
  /\ pg_conn' = "closed"
  /\ df_rows' = Concat(frames)
  /\ batch_size' \in 1..MaxBatchSize
  /\ offset' = 0
  /\ dq_pc' = "write"
  /\ UNCHANGED <<dq_specs, dq_days, dq_i, had_error, frames, dq_log, attempt, sleeps,
                 read_out, batches, dq_engine, exit_code,
                 runVars, alignVars, mergeVars, exprVars>>

\* rows[i:i + batch_size]
Chunk(rows, i, size) ==
  SubSeq(rows, i + 1, IF i + size < Len(rows) THEN i + size ELSE Len(rows))

\* write_results: the head of "for i in range(0, len(rows), batch_size)" and
\* start_query_execution of the chunk; the loop is over (or was never entered,
\* df.empty) when no row is left
WriteBatch ==
  /\ dq_pc = "write"
  /\ IF offset < Len(df_rows)
     THEN /\ batches' = Append(batches, Chunk(df_rows, offset, batch_size))
          /\ dq_engine' = [state |-> "QUEUED", reason |-> None]
          /\ dq_pc' = "wait"
     ELSE /\ dq_pc' = "summary"
          /\ UNCHANGED <<batches, dq_engine>>
  /\ UNCHANGED <<dq_specs, dq_days, dq_i, pg_conn, had_error, frames, dq_log, attempt,
                 sleeps, read_out, df_rows, batch_size, offset, exit_code,
                 runVars, alignVars, mergeVars, exprVars>>

\* Faulty variant of WaitPc: returns on any terminal state
WaitPcReturnsOnFailure(st) ==
  IF st \in {"SUCCEEDED", "FAILED", "CANCELLED"} THEN "write" ELSE "wait"

\* _athena_wait: SUCCEEDED returns to the loop of write_results, FAILED and
\* CANCELLED raise RuntimeError, which nobody catches; otherwise sleep and poll
WaitPc(st) ==
  CASE st = "SUCCEEDED"               -> "write"
    [] st \in {"FAILED", "CANCELLED"} -> "exit"
    [] OTHER                          -> "wait"

\* _athena_wait: one get_query_execution of the loop
AthenaWait ==
  /\ dq_pc = "wait"
  /\ \E st \in EngineStates, rs \in ReasonChoices :
       /\ dq_engine' = [state |-> st, reason |-> rs]
       /\ dq_pc' = WaitPc(st)
       /\ offset' = IF WaitPc(st) = "write" THEN offset + batch_size ELSE offset
       /\ exit_code' = IF WaitPc(st) = "exit" THEN ExitUncaught ELSE exit_code
  /\ UNCHANGED <<dq_specs, dq_days, dq_i, pg_conn, had_error, frames, dq_log, attempt,
                 sleeps, read_out, df_rows, batch_size, batches,
                 runVars, alignVars, mergeVars, exprVars>>

\* Faulty variant of ExitCode: the fail-on-empty code is looked at first
ExitCodeEmptyFirst(error, fail_on_empty, empty, nspecs) ==
  IF fail_on_empty /\ empty /\ nspecs > 0 THEN 3
  ELSE IF error THEN 2
  ELSE 0

\* main after write_results returned: sys.exit(2) when had_error, sys.exit(3)
\* when --fail-on-empty and the frame is empty, else the end of main
ExitCode(error, fail_on_empty, empty, nspecs) ==
  IF error THEN 2
  ELSE IF fail_on_empty /\ empty /\ nspecs > 0 THEN 3
  ELSE 0

MainExit ==
  /\ dq_pc = "summary"
  /\ \E fail_on_empty \in BOOLEAN :
       exit_code' = ExitCode(had_error, fail_on_empty, df_rows = <<>>, Len(dq_specs))
  /\ dq_pc' = "exit"
  /\ UNCHANGED <<dq_specs, dq_days, dq_i, pg_conn, had_error, frames, dq_log, attempt,
                 sleeps, read_out, df_rows, batch_size, offset, batches, dq_engine,
                 runVars, alignVars, mergeVars, exprVars>>

DqNext ==
  \/ Connect
  \/ CheckSource
  \/ ReadSqlAttempt
  \/ RunAllReturn
  \/ WriteBatch
  \/ AthenaWait
  \/ MainExit

----------------------------------------------------------------------------
(* Claims on the comparison run *)

\* C23: read_sql makes at most max_attempts attempts; while the call runs
\* every attempt made has failed and was followed by one backoff sleep; a call
\* that returned did so at the attempt that succeeded, with one sleep after
\* each failed attempt before it and no attempt after it; a call that raised
\* made max_attempts attempts, slept between them only, and raised the error
\* of the last one
C23_ReadSqlAttempts ==
  /\ attempt <= max_attempts
  /\ dq_pc = "read_sql" =>
       attempt < max_attempts /\ sleeps = attempt /\ read_out.kind = "none"
  /\ read_out.kind = "returned" =>
       attempt = read_out.attempt /\ sleeps = attempt - 1
  /\ read_out.kind = "raised" =>
       /\ attempt = max_attempts
       /\ read_out.attempt = max_attempts
       /\ sleeps = max_attempts - 1

\* A call that raised after the last attempt failed
C23_Witness == read_out.kind = "raised" /\ sleeps > 0

\* A call that returned at its third attempt
C23_WitnessReturned == read_out = [kind |-> "returned", attempt |-> 3]

\* The frames of the first k checks that printed their [TIME] line, in order
RECURSIVE ClaimFrames(_)
ClaimFrames(k) ==
  IF k = 0 THEN <<>>
  ELSE ClaimFrames(k - 1)
         \o (IF dq_log[k] = "TIME" THEN <<CheckFrame(dq_specs[k], dq_days)>> ELSE <<>>)

\* run_all has returned to main
ClaimReturned == dq_pc \in {"write", "wait", "summary"} \/ (dq_pc = "exit" /\ pg_conn /= "none")

\* Every check that was started has one line in the log; the frames are those of
\* the checks that did not raise; had_error is set exactly when some check
\* raised; run_all returns after the last check only, with the connection
\* closed, and the connection is open nowhere outside run_all
ClaimRunAll ==
  /\ dq_pc \in {"check", "read_sql"} => Len(dq_log) = dq_i - 1 /\ pg_conn = "open"
  /\ dq_pc \notin {"idle", "start"} =>
       /\ frames = ClaimFrames(Len(dq_log))
       /\ had_error = (\E k \in 1..Len(dq_log) : dq_log[k] = "ERROR")
  /\ dq_pc \notin {"check", "read_sql"} => pg_conn /= "open"
  /\ ClaimReturned =>
       /\ Len(dq_log) = Len(dq_specs)
       /\ pg_conn = "closed"
       /\ df_rows = Concat(frames)

\* write_results returned: every row was handed to the engine
ClaimWritten == dq_pc \in {"summary", "exit"} /\ Concat(batches) = df_rows

\* C24 as stated: a check that raises leaves no frame, sets had_error and lets
\* the other checks run; the connection is closed on every exit of run_all;
\* and whenever a check failed the process ends with code 2
C24_Original ==
  /\ ClaimRunAll
  /\ dq_pc = "exit" /\ had_error => exit_code = 2 /\ ClaimWritten

\* C24, amended: the same of run_all; when write_results returns, the process
\* ends with code 2 exactly when a check failed; it ends with the status of an
\* uncaught exception when the connection could not be opened or a batch
\* ended FAILED or CANCELLED, a failed check or not
C24_FailedCheckOutcome ==
  /\ ClaimRunAll
  /\ dq_pc = "exit" =>
       IF exit_code = ExitUncaught
       THEN pg_conn = "none" \/ dq_engine.state \in {"FAILED", "CANCELLED"}
       ELSE ClaimWritten /\ ((exit_code = 2) = had_error)

\* The first check raised, the second did not, its rows were written and the
\* process ended with code 2
C24_Witness ==
  /\ dq_pc = "exit" /\ exit_code = 2
  /\ dq_log = <<"ERROR", "TIME">>
  /\ df_rows /= <<>> /\ Concat(batches) = df_rows

\* Every check raised: nothing to write, and code 2 whatever --fail-on-empty
C24_WitnessEmpty == dq_pc = "exit" /\ exit_code = 2 /\ df_rows = <<>>

\* The batches submitted so far are the leading rows of the frame cut, in input
\* order, into chunks of batch_size rows, the last one of a finished write
\* holding what is left; an empty frame has none
ClaimBatches ==
  /\ \A k \in 1..Len(batches) : Len(batches[k]) \in 1..batch_size
  /\ \A k \in 1..(Len(batches) - 1) : Len(batches[k]) = batch_size
  /\ Len(Concat(batches)) <= Len(df_rows)
  /\ Concat(batches) = SubSeq(df_rows, 1, Len(Concat(batches)))
  /\ dq_pc = "summary" => Concat(batches) = df_rows
  /\ df_rows = <<>> => batches = <<>>

\* A step that submits a batch submits one, the first one or the one after a
\* batch the last poll reported SUCCEEDED
ClaimSubmitStep ==
  batches' /= batches =>
    /\ Len(batches') = Len(batches) + 1
    /\ batches = <<>> \/ dq_engine.state = "SUCCEEDED"
    /\ dq_engine'.state = "QUEUED"

\* C25: write_results cuts the rows into consecutive batches of at most
\* batch_size rows, every row in one batch and in input order, and submits the
\* batches one after the other: the next one only after the last one
\* SUCCEEDED, none after one that ended FAILED or CANCELLED, and none of an
\* empty frame
C25_SequentialBatches == []ClaimBatches /\ [][ClaimSubmitStep]_vars

\* The third batch of a frame waits for the engine, the two before it full
C25_Witness == dq_pc = "wait" /\ Len(batches) = 3 /\ batch_size = 3

\* A write that ended at a batch that FAILED with rows left unsubmitted
C25_WitnessFailed ==
  /\ dq_pc = "exit" /\ dq_engine.state = "FAILED"
  /\ Len(batches) = 1 /\ Len(Concat(batches)) < Len(df_rows)

\* ON t.id = src.id AND t.created_at = src.created_at
\*    AND t.created_hours = src.created_hours
MergeKey(row) == <<row.id, row.created_at, row.created_hours>>

\* No two checks of the list have the same id
ClaimDistinctChecks ==
  \A i, j \in 1..Len(dq_specs) : i /= j => dq_specs[i].id /= dq_specs[j].id

\* C30: whatever the list of (distinct) checks and the window, no two rows of
\* the frame handed to write_results have the same merge key
\* (id, created_at, created_hours)
C30_DistinctMergeKeys ==
  ClaimDistinctChecks =>
    \A i, j \in 1..Len(df_rows) :
      i /= j => MergeKey(df_rows[i]) /= MergeKey(df_rows[j])

\* Within the frame of one check the merge keys are distinct
ClaimOneCheckDistinct ==
  \A f \in 1..Len(frames) : \A i, j \in 1..Len(frames[f]) :
    i /= j => MergeKey(frames[f][i]) /= MergeKey(frames[f][j])

----------------------------------------------------------------------------
(* Specifications *)

RunIdle ==
  /\ entry = "none"
  /\ inp = <<>>
  /\ pc = "idle"
  /\ res = NoRes
  /\ warns = 0
  /\ submitted = 0
  /\ err = "none"
  /\ engine = NoEngine
  /\ err_reason = None
  /\ cleanup = NoCleanup

AlignIdle ==
  /\ pg_names = <<>>
  /\ pg_ddl = <<>>
  /\ athena_cols = <<>>
  /\ frame_cols = <<>>
  /\ align_branch = "none"
  /\ align_warns = 0
  /\ apc = "idle"

ExprIdle ==
  /\ expr_in = <<>>
  /\ expr_out = "none"
  /\ epc = "idle"

DqIdle ==
  /\ dq_specs = <<>>
  /\ dq_days = 0
  /\ dq_pc = "idle"
  /\ dq_i = 0
  /\ pg_conn = "none"
  /\ had_error = FALSE
  /\ frames = <<>>
  /\ dq_log = <<>>
  /\ attempt = 0
  /\ sleeps = 0
  /\ read_out = NoRead
  /\ df_rows = <<>>
  /\ batch_size = 0
  /\ offset = 0
  /\ batches = <<>>
  /\ dq_engine = NoEngine
  /\ exit_code = NoExit

MergeIdle ==
  /\ mcfg = <<>>
  /\ merge_sql = NoStmt
  /\ staging = <<>>
  /\ prod = <<>>
  /\ applied = 0
  /\ last = NoMerge

Init == RunInit /\ AlignIdle /\ MergeIdle /\ ExprIdle /\ DqIdle

Next == RunNext

\* One merge run of either entry point
Spec == Init /\ [][Next]_vars

\* The column alignment
InitAlign == AlignInit /\ RunIdle /\ MergeIdle /\ ExprIdle /\ DqIdle

SpecAlign == InitAlign /\ [][AlignNext]_vars

\* Repeated MERGE statements on the staging and production tables
InitMerge == MergeInit /\ RunIdle /\ AlignIdle /\ ExprIdle /\ DqIdle

SpecMerge == InitMerge /\ [][MergeNext]_vars

\* Repeated MERGE statements on a staging table of padded key texts
InitMergeKeys == MergeKeysInit /\ RunIdle /\ AlignIdle /\ ExprIdle /\ DqIdle

SpecMergeKeys == InitMergeKeys /\ [][MergeNext]_vars

\* One pure function applied to one input
InitExpr == ExprInit /\ RunIdle /\ AlignIdle /\ MergeIdle /\ DqIdle

SpecExpr == InitExpr /\ [][ExprNext]_vars

\* One run of the hourly data-quality comparison
InitDq == DqInit /\ RunIdle /\ AlignIdle /\ MergeIdle /\ ExprIdle

SpecDq == InitDq /\ [][DqNext]_vars
----------------------------------------------------------------------------
(* The polling loops under an engine that ends every query *)

\* if st in ("SUCCEEDED", "FAILED", "CANCELLED")
TerminalStates == {"SUCCEEDED", "FAILED", "CANCELLED"}

\* Arguments of a merge run without filter, exclusions or tiebreakers; the
\* polling loop does not read them
WaitInputs ==
  { i \in BackfillInputs \cup MicroInputs :
      /\ i.exclude = {}
      /\ i.filter_col = None /\ i.start_ts = None /\ i.end_ts = None
      /\ i.updated_col = None
      /\ "tiebreakers" \in DOMAIN i => i.tiebreakers = <<>> }

\* A merge run on such arguments, or a comparison of one check over one day
InitWait ==
  \/ RunInit /\ inp \in WaitInputs /\ AlignIdle /\ MergeIdle /\ ExprIdle /\ DqIdle
  \/ DqInit /\ Len(dq_specs) = 1 /\ dq_days = 1
       /\ RunIdle /\ AlignIdle /\ MergeIdle /\ ExprIdle

WaitNext == RunNext \/ DqNext

\* A poll of run_athena_sql that observes the end of the query
PollTerminal == Poll /\ engine'.state \in TerminalStates

\* A poll of _athena_wait that observes the end of the query
AthenaWaitTerminal == AthenaWait /\ dq_engine'.state \in TerminalStates

\* The loops poll again after every sleep, and the engine ends every query it
\* was given: a loop that keeps polling gets to see a terminal state
SpecWait ==
  InitWait /\ [][WaitNext]_vars /\ WF_vars(PollTerminal) /\ WF_vars(AthenaWaitTerminal)

\* A step of a run inside the loop of run_athena_sql keeps it in the loop when
\* the poll reported QUEUED or RUNNING and takes it out of the loop when the
\* poll reported a terminal state
ClaimPollStep ==
  pc = "polling" => ((pc' = "polling") = (engine'.state \notin TerminalStates))

\* The same of _athena_wait; a batch that SUCCEEDED takes the run to the head
\* of the loop of write_results
ClaimWaitStep ==
  dq_pc = "wait" => ((dq_pc' = "wait") = (dq_engine'.state \notin TerminalStates))

\* C22: after the statement was submitted, run_athena_sql and _athena_wait stay
\* in their polling loop for as long as the polls report QUEUED or RUNNING,
\* leave it at the first terminal state a poll reports, and, the engine
\* ending every query, do leave it
C22_PollLoopTerminates ==
  /\ [][ClaimPollStep /\ ClaimWaitStep]_vars
  /\ (pc = "polling") ~> (pc /= "polling")
  /\ (dq_pc = "wait") ~> (dq_pc /= "wait")

\* A run still in the loop after a poll that reported RUNNING
C22_Witness == pc = "polling" /\ engine.state = "RUNNING" /\ submitted = 1

\* The same of a batch of write_results
C22_WitnessWait == dq_pc = "wait" /\ dq_engine.state = "RUNNING" /\ Len(batches) = 2


====
